---- MODULE Spec2Model ----
(***************************************************************************)
(* Script synthesis and caching engine of src-tauri/src/llm.rs.            *)
(*                                                                         *)
(* Text is modelled at character level: a Rust String/&str is a sequence   *)
(* of one-character strings, so trim(), lines(), contains(), find() and    *)
(* len() are computed the way the standard library computes them.  All     *)
(* text used here is ASCII, so byte length and character count agree.      *)
(***************************************************************************)
EXTENDS Integers, Sequences, FiniteSets, TLC

(***************************************************************************)
(* Option<T>: None is the empty sequence, Some(x) the one-element one.     *)
(***************************************************************************)
None == <<>>
Some(x) == <<x>>
IsSome(o) == o # <<>>
Unwrap(o) == o[1]

(***************************************************************************)
(* Result<T, E>                                                            *)
(***************************************************************************)
Ok(v) == [ok |-> TRUE, val |-> v]
Err(e) == [ok |-> FALSE, err |-> e]

\* number of times the clock is advanced between steps in one behaviour
MaxTicks == 1

\* retries: the third argument of the two calls in generate_dsl_script_with_cache
Retries == 3

\* the base of the backoff, 100 ms
BackoffMs == 100

\* INTERVAL '1 hour', in ms
TtlMs == 3600000

\* width in bits of the stand-in for the 64-bit hash of DefaultHasher
HashWidth == 20

\* ------------------------------------------------------------------ str

\* char::is_whitespace, restricted to the ASCII characters used
IsWhitespace(c) == c \in {" ", "\n", "\t", "\r"}

\* str::trim: what lies between the first and the last character that is
\* not whitespace
Trim(s) ==
    LET keep == {i \in 1..Len(s) : ~IsWhitespace(s[i])}
    IN IF keep = {} THEN <<>>
       ELSE SubSeq(s, CHOOSE i \in keep : \A j \in keep : i <= j,
                      CHOOSE i \in keep : \A j \in keep : j <= i)

\* str::is_empty
IsEmpty(s) == Len(s) = 0

\* the idiom  s.trim().is_empty()
\* a blank test that forgets the trim
IsBlank_untrimmed(s) == IsEmpty(s)

IsBlank(s) == IsEmpty(Trim(s))

\* str::starts_with
StartsWith(s, p) == Len(p) <= Len(s) /\ SubSeq(s, 1, Len(p)) = p

\* str::find(&str): 1-based index of the first occurrence, 0 when absent
Find(s, p) ==
    LET hits == {i \in 1..(Len(s) - Len(p) + 1) : SubSeq(s, i, i + Len(p) - 1) = p}
    IN IF hits = {} THEN 0 ELSE CHOOSE i \in hits : \A j \in hits : i <= j

\* str::contains(&str)
Contains(s, p) == Find(s, p) # 0

\* the rest of s from 1-based index i on (&s[i-1..])
From(s, i) == SubSeq(s, i, Len(s))

StripCr(s) ==
    IF s # <<>> /\ s[Len(s)] = "\r" THEN SubSeq(s, 1, Len(s) - 1) ELSE s

\* str::lines: the pieces that end at each "\n" (a "\r" before it is
\* dropped), then what follows the last "\n" unless that is empty
Lines(s) ==
    LET breaks == {i \in 1..Len(s) : s[i] = "\n"}
        n == Cardinality(breaks)
        break(k) == IF k = 0 THEN 0
                    ELSE CHOOSE i \in breaks : Cardinality({j \in breaks : j < i}) = k - 1
        last == break(n)
    IN [k \in 1..(IF last < Len(s) THEN n + 1 ELSE n) |->
            IF k <= n THEN StripCr(SubSeq(s, break(k - 1) + 1, break(k) - 1))
            ELSE SubSeq(s, last + 1, Len(s))]

\* [T]::join(sep) on a sequence of strings
RECURSIVE Join(_, _)
Join(parts, sep) ==
    IF parts = <<>> THEN <<>>
    ELSE IF Len(parts) = 1 THEN parts[1]
    ELSE parts[1] \o sep \o Join(Tail(parts), sep)

\* str::replace(char, &str)
Replace(s, ch, with) ==
    Join([i \in 1..Len(s) |-> IF s[i] = ch THEN with ELSE <<s[i]>>], <<>>)

UpperLetters ==
    <<"A","B","C","D","E","F","G","H","I","J","K","L","M","N","O","P","Q","R","S","T","U","V",
     "W","X","Y","Z">>
LowerLetters ==
    <<"a","b","c","d","e","f","g","h","i","j","k","l","m","n","o","p","q","r","s","t","u","v",
     "w","x","y","z">>

LowerChar(c) ==
    IF \E i \in 1..26 : UpperLetters[i] = c
    THEN LowerLetters[CHOOSE i \in 1..26 : UpperLetters[i] = c]
    ELSE c

\* str::to_lowercase (ASCII)
ToLowercase(s) == [i \in 1..Len(s) |-> LowerChar(s[i])]

\* the printable ASCII characters of code 32 to 95, in code order
PrintableLow ==
    <<" ","!","\"","#","$","%","&","'","(",")","*","+",",","-",".","/","0","1","2","3","4","5",
     "6","7","8","9",":",";","<","=",">","?","@","A","B","C","D","E","F","G","H","I","J",
     "K","L","M","N","O","P","Q","R","S","T","U","V","W","X","Y","Z","[","\\","]","^","_">>

\* the printable ASCII characters of code 97 to 126, in code order
PrintableHigh ==
    <<"a","b","c","d","e","f","g","h","i","j","k","l","m","n","o","p","q","r","s","t","u","v",
     "w","x","y","z","{","|","}","~">>

\* the UTF-8 byte of an ASCII character
ByteOf(c) ==
    IF c = "\n" THEN 10
    ELSE IF c = "\t" THEN 9
    ELSE IF c = "\r" THEN 13
    ELSE IF \E i \in 1..Len(PrintableLow) : PrintableLow[i] = c
    THEN 31 + (CHOOSE i \in 1..Len(PrintableLow) : PrintableLow[i] = c)
    ELSE 96 + (CHOOSE i \in 1..Len(PrintableHigh) : PrintableHigh[i] = c)

Bytes(s) == [i \in 1..Len(s) |-> ByteOf(s[i])]
\* ------------------------------------------------------- serde_json

\* serde_json::Value: a string, or an object held as the sequence of its
\* entries in the order the map iterates them
JsonString(s) == [kind |-> "string", str |-> s]
JsonObject(entries) == [kind |-> "object", entries |-> entries]
Entry(k, v) == [key |-> k, value |-> v]

\* Value::is_object
is_object(v) == v.kind = "object"

\* Value::as_object().map(|obj| obj.keys().cloned().collect()).unwrap_or_default()
ObjectKeys(v) ==
    IF is_object(v) THEN [i \in 1..Len(v.entries) |-> v.entries[i].key] ELSE <<>>

\* Ord for String: byte-wise lexicographic
StrLess(a, b) ==
    \E i \in 1..(Len(a) + 1) :
        /\ i <= Len(b)
        /\ \A j \in 1..(i - 1) : a[j] = b[j]
        /\ i = Len(a) + 1 \/ ByteOf(a[i]) < ByteOf(b[i])

\* the two types serde_json::Map can be built on: BTreeMap<String, Value>,
\* and IndexMap<String, Value> with the crate feature preserve_order.  The
\* feature is set in the manifest of the build, not in the sources.
Builds == {"BTreeMap", "IndexMap"}

\* Map::insert: an entry of that key keeps its place and gets the value; a new
\* key goes to its sorted place in a BTreeMap and to the end of an IndexMap
MapInsert(build, entries, k, v) ==
    IF \E i \in 1..Len(entries) : entries[i].key = k
    THEN [i \in 1..Len(entries) |->
              IF entries[i].key = k THEN Entry(k, v) ELSE entries[i]]
    ELSE IF build = "BTreeMap"
    THEN LET before == SelectSeq(entries, LAMBDA e : StrLess(e.key, k))
             after == SelectSeq(entries, LAMBDA e : StrLess(k, e.key))
         IN before \o <<Entry(k, v)>> \o after
    ELSE Append(entries, Entry(k, v))

\* json!({ k1: v1, k2: v2, ... }): the entries are inserted in source order
RECURSIVE MapFrom(_, _)
MapFrom(build, insertions) ==
    IF insertions = <<>> THEN <<>>
    ELSE LET n == Len(insertions)
         IN MapInsert(build, MapFrom(build, SubSeq(insertions, 1, n - 1)),
                      insertions[n].key, insertions[n].value)

\* user_data.get(key).and_then(|v| v.as_str())
GetStr(v, key) ==
    IF is_object(v) /\ \E i \in 1..Len(v.entries) :
                           v.entries[i].key = key /\ v.entries[i].value.kind = "string"
    THEN Some((CHOOSE e \in {v.entries[i] : i \in 1..Len(v.entries)} : e.key = key).value.str)
    ELSE None

\* ------------------------------------------------------ FormAnalyzer

\* FormAnalyzer::extract_attribute
extract_attribute(line, attr) ==
    LET pattern == attr \o <<"=","\"">>
        found == Find(line, pattern)
        start == found + Len(pattern)
        end == Find(From(line, start), <<"\"">>)
    IN IF found # 0 /\ end # 0
       THEN Some(SubSeq(line, start, start + end - 2))
       ELSE None

\* FormAnalyzer::extract_text_content
extract_text_content(line) ==
    LET start == Find(line, <<">">>)
        end == Find(From(line, start + 1), <<"<">>)
        content == Trim(SubSeq(line, start + 1, start + end - 1))
    IN IF start # 0 /\ end # 0 /\ ~IsEmpty(content) THEN Some(content) ELSE None

\* format!("#{}", id), format!("[name=\"{}\"]", name), format!(".{}", class)
IdSelector(o) == IF IsSome(o) THEN <<<<"#">> \o Unwrap(o)>> ELSE <<>>
NameSelector(o) ==
    IF IsSome(o) THEN <<<<"[","n","a","m","e","=","\"">> \o Unwrap(o) \o <<"\"","]">>>> ELSE <<>>
ClassSelector(o) == IF IsSome(o) THEN <<<<".">> \o Unwrap(o)>> ELSE <<>>

\* HashMap::entry(key).or_insert_with(Vec::new).extend(selectors)
EntryExtend(elements, key, selectors) ==
    IF key \in DOMAIN elements
    THEN [elements EXCEPT ![key] = @ \o selectors]
    ELSE elements @@ (key :> selectors)

\* FormAnalyzer::parse_input_element
parse_input_element(elements, line) ==
    LET t == extract_attribute(line, <<"t","y","p","e">>)
        input_type == IF IsSome(t) THEN Unwrap(t) ELSE <<"t","e","x","t">>
        selectors == IdSelector(extract_attribute(line, <<"i","d">>))
                     \o NameSelector(extract_attribute(line, <<"n","a","m","e">>))
                     \o ClassSelector(extract_attribute(line, <<"c","l","a","s","s">>))
    IN EntryExtend(elements, input_type, selectors)

\* the classification of a button by its text, in parse_button_element
button_type(text_content) ==
    IF IsSome(text_content)
    THEN LET text_lower == ToLowercase(Unwrap(text_content))
         IN IF Contains(text_lower, <<"s","u","b","m","i","t">>) \/ Contains(text_lower, <<"a","p","p","l","y">>)
               \/ Contains(text_lower, <<"s","e","n","d">>)
            THEN <<"s","u","b","m","i","t">>
            ELSE IF Contains(text_lower, <<"l","o","g","i","n">>) \/ Contains(text_lower, <<"s","i","g","n"," ","i","n">>)
            THEN <<"l","o","g","i","n">>
            ELSE IF Contains(text_lower, <<"a","c","c","e","p","t">>) \/ Contains(text_lower, <<"a","g","r","e","e">>)
            THEN <<"a","c","c","e","p","t">>
            ELSE <<"b","u","t","t","o","n">>
    ELSE <<"b","u","t","t","o","n">>

\* FormAnalyzer::parse_button_element
parse_button_element(elements, line) ==
    LET selectors == IdSelector(extract_attribute(line, <<"i","d">>))
                     \o ClassSelector(extract_attribute(line, <<"c","l","a","s","s">>))
    IN EntryExtend(elements, button_type(extract_text_content(line)), selectors)

\* FormAnalyzer::parse_select_element
parse_select_element(elements, line) ==
    LET selectors == IdSelector(extract_attribute(line, <<"i","d">>))
                     \o NameSelector(extract_attribute(line, <<"n","a","m","e">>))
    IN EntryExtend(elements, <<"s","e","l","e","c","t">>, selectors)

\* one iteration of the loop of FormAnalyzer::analyze_elements
analyze_line(elements, line) ==
    IF Contains(line, <<"<","i","n","p","u","t">>) THEN parse_input_element(elements, line)
    ELSE IF Contains(line, <<"<","b","u","t","t","o","n">>)
            \/ (Contains(line, <<"<","i","n","p","u","t">>) /\ Contains(line, <<"t","y","p","e","=","\"","s","u","b","m","i","t","\"">>))
    THEN parse_button_element(elements, line)
    ELSE IF Contains(line, <<"<","s","e","l","e","c","t">>) THEN parse_select_element(elements, line)
    ELSE elements

RECURSIVE analyze_lines(_, _)
analyze_lines(elements, lines) ==
    IF lines = <<>> THEN elements
    ELSE analyze_lines(analyze_line(elements, Head(lines)), Tail(lines))

\* FormAnalyzer::new / analyze_elements: the element inventory of a page,
\* a map from element kind to the selectors found, in document order
analyze_elements(html) == analyze_lines(<<>>, Lines(html))
\* ------------------------------------------------- script synthesis

\* basic_navigation_script: the raw literal, trimmed
basic_navigation_script ==
    Trim(<<"\n","/","/"," ","B","a","s","i","c"," ","n","a","v","i","g","a","t","i","o","n"," ","s",
     "c","r","i","p","t","\n","w","a","i","t"," ","3","\n","c","l","i","c","k"," ","\"","A",
     "c","c","e","p","t","\""," ","i","f"," ","p","r","e","s","e","n","t","\n","c","l","i",
     "c","k"," ","\"","L","o","g","i","n","\""," ","i","f"," ","p","r","e","s","e","n","t",
     "\n","w","a","i","t"," ","2","\n">>)

\* the substitute for a blank script taken to be the basic navigation script
generate_basic_fallback_script_navigation == basic_navigation_script

\* generate_basic_fallback_script
generate_basic_fallback_script ==
    <<"/","/"," ","B","a","s","i","c"," ","f","a","l","l","b","a","c","k","\n","w","a","i","t",
     " ","3","\n","c","l","i","c","k"," ","\"","C","o","n","t","i","n","u","e","\""," ","i",
     "f"," ","p","r","e","s","e","n","t","\n","w","a","i","t"," ","2","\n">>

\* generate_emergency_fallback_script
generate_emergency_fallback_script ==
    <<"w","a","i","t"," ","5","\n","/","/"," ","E","m","e","r","g","e","n","c","y"," ","f","a",
     "l","l","b","a","c","k"," ","-"," ","m","a","n","u","a","l"," ","i","n","t","e","r",
     "v","e","n","t","i","o","n"," ","m","a","y"," ","b","e"," ","r","e","q","u","i","r",
     "e","d","\n">>

\* a check of the length of the trimmed script
validate_generated_script_trimmed_length(script) ==
    ~IsEmpty(Trim(script)) /\ Len(Trim(script)) > 5

\* validate_generated_script
validate_generated_script(script) == ~IsEmpty(Trim(script)) /\ Len(script) > 5

\* the orders in which a HashMap with key set K may be iterated: the standard
\* library fixes none, so every enumeration of K is one
IterationOrders(K) ==
    {ord \in [1..Cardinality(K) -> K] :
        \A i, j \in 1..Cardinality(K) : ord[i] = ord[j] => i = j}

\* the line the loop of generate_enhanced_form_script adds for one key
element_comment(element_type) ==
    IF element_type = <<"i","n","p","u","t">> THEN <<"/","/"," ","I","n","p","u","t"," ","f","i","e","l","d"," ","d","e","t","e","c","t","e",
     "d","\n">>
    ELSE IF element_type = <<"b","u","t","t","o","n">> THEN <<"/","/"," ","B","u","t","t","o","n"," ","d","e","t","e","c","t","e","d","\n">>
    ELSE IF element_type = <<"s","e","l","e","c","t">> THEN <<"/","/"," ","S","e","l","e","c","t"," ","f","i","e","l","d"," ","d","e","t","e","c","t",
     "e","d","\n">>
    ELSE <<>>

RECURSIVE element_comments(_)
element_comments(order) ==
    IF order = <<>> THEN <<>>
    ELSE element_comment(Head(order)) \o element_comments(Tail(order))

\* generate_enhanced_form_script, for the order in which the inventory is
\* iterated; user_data is not read
generate_enhanced_form_script(html, order) ==
    Ok(<<"w","a","i","t"," ","2","\n">> \o element_comments(order) \o <<"w","a","i","t"," ","1","\n">>)

\* generate_simple_form_script
generate_simple_form_script ==
    Ok(<<"w","a","i","t"," ","3","\n","c","l","i","c","k"," ","\"","S","u","b","m","i","t","\"",
     " ","i","f"," ","p","r","e","s","e","n","t","\n","w","a","i","t"," ","2","\n">>)

\* the chain with the simple heuristic tried before the enhanced analysis
generate_script_with_comprehensive_fallbacks_simple_first(html, order) ==
    LET enhanced == generate_enhanced_form_script(html, order)
        simple == generate_simple_form_script
    IN IF simple.ok /\ ~IsBlank(simple.val) THEN Ok(simple.val)
       ELSE IF enhanced.ok /\ ~IsBlank(enhanced.val) THEN Ok(enhanced.val)
       ELSE Ok(basic_navigation_script)

\* generate_script_with_comprehensive_fallbacks
generate_script_with_comprehensive_fallbacks(html, order) ==
    LET enhanced == generate_enhanced_form_script(html, order)
        simple == generate_simple_form_script
    IN IF enhanced.ok /\ ~IsBlank(enhanced.val) THEN Ok(enhanced.val)
       ELSE IF simple.ok /\ ~IsBlank(simple.val) THEN Ok(simple.val)
       ELSE Ok(basic_navigation_script)

\* lines 104-118 of generate_dsl_script_with_cache: the script of a call
\* that did not return from the cache
GeneratedScript(html, order) ==
    LET r == generate_script_with_comprehensive_fallbacks(html, order)
    IN IF r.ok
       THEN (IF IsBlank(r.val) THEN generate_basic_fallback_script ELSE r.val)
       ELSE generate_emergency_fallback_script

\* the tiers that generate_script_with_comprehensive_fallbacks evaluates, in
\* the order in which it evaluates them
TiersTried(html, order) ==
    LET enhanced == generate_enhanced_form_script(html, order)
        simple == generate_simple_form_script
    IN IF enhanced.ok /\ ~IsBlank(enhanced.val) THEN <<"enhanced">>
       ELSE IF simple.ok /\ ~IsBlank(simple.val) THEN <<"enhanced", "simple">>
       ELSE <<"enhanced", "simple", "basic">>

\* tagui::escape_for_dsl: input.replace('\\', "\\\\").replace('"', "\\\"")
\* the two replacements in the other order
escape_for_dsl_quotes_first(input) ==
    Replace(Replace(input, "\"", <<"\\", "\"">>), "\\", <<"\\", "\\">>)

escape_for_dsl(input) ==
    Replace(Replace(input, "\\", <<"\\", "\\">>), "\"", <<"\\", "\"">>)

\* FormAnalyzer::get_elements_by_type
get_elements_by_type(elements, element_type) ==
    IF element_type \in DOMAIN elements THEN elements[element_type] ELSE <<>>

\* slice::first
First(v) == IF v = <<>> THEN None ELSE Some(v[1])

\* format!("type \"{}\" \"{}\"", selector, escape_for_dsl(value))
TypeCommand(selector, value) ==
    <<"t","y","p","e"," ","\"">> \o selector \o <<"\""," ","\"">> \o escape_for_dsl(value) \o <<"\"">>

\* format!("click \"{}\"", selector)
ClickCommand(selector) == <<"c","l","i","c","k"," ","\"">> \o selector \o <<"\"">>

\* generate_login_sequence with the password typed before the email
generate_login_sequence_password_first(elements, user_data) ==
    LET username_selectors == get_elements_by_type(elements, <<"t","e","x","t">>)
        email_selectors == get_elements_by_type(elements, <<"e","m","a","i","l">>)
        username_field == IF IsSome(First(username_selectors))
                          THEN First(username_selectors) ELSE First(email_selectors)
        password_field == First(get_elements_by_type(elements, <<"p","a","s","s","w","o","r","d">>))
        email == GetStr(user_data, <<"e","m","a","i","l">>)
        username == GetStr(user_data, <<"u","s","e","r","n","a","m","e">>)
        password == GetStr(user_data, <<"p","a","s","s","w","o","r","d">>)
        login_btn == First(get_elements_by_type(elements, <<"l","o","g","i","n">>))
    IN IF IsSome(username_field) /\ IsSome(password_field)
       THEN Some((IF IsSome(password) /\ ~IsEmpty(Unwrap(password))
                  THEN <<TypeCommand(Unwrap(password_field), Unwrap(password))>>
                  ELSE <<>>)
                 \o (IF IsSome(email)
                     THEN (IF ~IsEmpty(Unwrap(email))
                           THEN <<TypeCommand(Unwrap(username_field), Unwrap(email))>>
                           ELSE <<>>)
                     ELSE IF IsSome(username) /\ ~IsEmpty(Unwrap(username))
                     THEN <<TypeCommand(Unwrap(username_field), Unwrap(username))>>
                     ELSE <<>>)
                 \o (IF IsSome(login_btn) THEN <<ClickCommand(Unwrap(login_btn))>>
                     ELSE <<>>))
       ELSE None

\* FormAnalyzer::is_login_form
is_login_form(elements) ==
    /\ <<"p","a","s","s","w","o","r","d">> \in DOMAIN elements
    /\ (<<"t","e","x","t">> \in DOMAIN elements \/ <<"e","m","a","i","l">> \in DOMAIN elements)

\* generate_login_sequence
generate_login_sequence(elements, user_data) ==
    LET username_selectors == get_elements_by_type(elements, <<"t","e","x","t">>)
        email_selectors == get_elements_by_type(elements, <<"e","m","a","i","l">>)
        username_field == IF IsSome(First(username_selectors))
                          THEN First(username_selectors) ELSE First(email_selectors)
        password_field == First(get_elements_by_type(elements, <<"p","a","s","s","w","o","r","d">>))
        email == GetStr(user_data, <<"e","m","a","i","l">>)
        username == GetStr(user_data, <<"u","s","e","r","n","a","m","e">>)
        password == GetStr(user_data, <<"p","a","s","s","w","o","r","d">>)
        login_btn == First(get_elements_by_type(elements, <<"l","o","g","i","n">>))
    IN IF IsSome(username_field) /\ IsSome(password_field)
       THEN Some((IF IsSome(email)
                  THEN (IF ~IsEmpty(Unwrap(email))
                        THEN <<TypeCommand(Unwrap(username_field), Unwrap(email))>>
                        ELSE <<>>)
                  ELSE IF IsSome(username) /\ ~IsEmpty(Unwrap(username))
                  THEN <<TypeCommand(Unwrap(username_field), Unwrap(username))>>
                  ELSE <<>>)
                 \o (IF IsSome(password) /\ ~IsEmpty(Unwrap(password))
                     THEN <<TypeCommand(Unwrap(password_field), Unwrap(password))>>
                     ELSE <<>>)
                 \o (IF IsSome(login_btn) THEN <<ClickCommand(Unwrap(login_btn))>>
                     ELSE <<>>))
       ELSE None

\* ------------------------------------------------- generate_simple_dsl

\* format!("upload \"{}\" \"{}\"", selector, escape_for_dsl(value))
UploadCommand(selector, value) ==
    <<"u","p","l","o","a","d"," ","\"">> \o selector \o <<"\""," ","\"">> \o escape_for_dsl(value) \o <<"\"">>

\* field_mappings of generate_simple_dsl
simple_field_mappings ==
    <<[data_key |-> <<"u","s","e","r","n","a","m","e">>,
       selectors |-> <<<<"#","u","s","e","r","n","a","m","e">>, <<"#","u","s","e","r">>, <<"[","n","a","m","e","=","\"","u","s","e","r","n","a","m","e","\"","]">>, <<"[","n","a","m","e","=","\"","e","m","a","i","l","\"","]">>>>],
      [data_key |-> <<"p","a","s","s","w","o","r","d">>,
       selectors |-> <<<<"#","p","a","s","s","w","o","r","d">>, <<"#","p","a","s","s">>, <<"[","n","a","m","e","=","\"","p","a","s","s","w","o","r","d","\"","]">>>>],
      [data_key |-> <<"f","u","l","l","n","a","m","e">>,
       selectors |-> <<<<"#","f","u","l","l","n","a","m","e">>, <<"#","f","u","l","l","-","n","a","m","e">>, <<"#","n","a","m","e">>, <<"[","n","a","m","e","=","\"","f","u","l","l","n","a","m","e","\"","]">>,
                       <<"[","n","a","m","e","=","\"","n","a","m","e","\"","]">>>>],
      [data_key |-> <<"e","m","a","i","l">>,
       selectors |-> <<<<"#","e","m","a","i","l">>, <<"[","n","a","m","e","=","\"","e","m","a","i","l","\"","]">>, <<"[","t","y","p","e","=","\"","e","m","a","i","l","\"","]">>>>],
      [data_key |-> <<"p","h","o","n","e">>,
       selectors |-> <<<<"#","p","h","o","n","e">>, <<"#","t","e","l","e","p","h","o","n","e">>, <<"[","n","a","m","e","=","\"","p","h","o","n","e","\"","]">>, <<"[","t","y","p","e","=","\"","t","e","l","\"","]">>>>],
      [data_key |-> <<"c","v","_","p","a","t","h">>,
       selectors |-> <<<<"#","c","v","-","u","p","l","o","a","d">>, <<"#","r","e","s","u","m","e">>, <<"#","c","v">>, <<"[","t","y","p","e","=","\"","f","i","l","e","\"","]">>>>]>>

\* submit_selectors of generate_simple_dsl
submit_selectors ==
    <<<<"#","s","u","b","m","i","t">>, <<"#","a","p","p","l","y">>, <<"#","s","e","n","d">>, <<"#","l","o","g","i","n">>, <<"#","a","p","p","l","y","-","s","u","b","m","i","t">>,
      <<"[","t","y","p","e","=","\"","s","u","b","m","i","t","\"","]">>, <<"b","u","t","t","o","n","[","t","y","p","e","=","\"","s","u","b","m","i","t","\"","]">>>>

\* the crude presence check: html.contains(&selector.replace("#", "id=\"")
\* .replace("[", "").replace("]", "")) || html.contains(selector)
selector_present(html, selector) ==
    \/ Contains(html, Replace(Replace(Replace(selector, "#", <<"i","d","=","\"">>), "[", <<>>), "]", <<>>))
    \/ Contains(html, selector)

\* a loop that keeps the last selector present instead of breaking at the first
first_present_no_break(html, selectors) ==
    LET hits == {i \in 1..Len(selectors) : selector_present(html, selectors[i])}
    IN IF hits = {} THEN None
       ELSE Some(selectors[CHOOSE i \in hits : \A j \in hits : j <= i])

\* for selector in selectors { if present { ...; break; } }
first_present(html, selectors) ==
    LET hits == {i \in 1..Len(selectors) : selector_present(html, selectors[i])}
    IN IF hits = {} THEN None
       ELSE Some(selectors[CHOOSE i \in hits : \A j \in hits : i <= j])

\* the body of the loop over field_mappings, for one mapping
simple_field_command(html, user_data, mapping) ==
    LET value == GetStr(user_data, mapping.data_key)
        selector == first_present(html, mapping.selectors)
    IN IF IsSome(value) /\ ~IsEmpty(Unwrap(value)) /\ IsSome(selector)
       THEN (IF mapping.data_key = <<"c","v","_","p","a","t","h">>
             THEN UploadCommand(Unwrap(selector), Unwrap(value))
             ELSE TypeCommand(Unwrap(selector), Unwrap(value))) \o <<"\n">>
       ELSE <<>>

\* generate_simple_dsl
generate_simple_dsl(html, user_data) ==
    (IF Contains(html, <<"i","d","=","\"","l","o","g","i","n","-","b","t","n","\"">>) \/ Contains(html, <<"c","l","a","s","s","=","\"","l","o","g","i","n">>)
     THEN ClickCommand(<<"#","l","o","g","i","n","-","b","t","n">>) \o <<"\n">> ELSE <<>>)
    \o Join([i \in 1..Len(simple_field_mappings) |->
                simple_field_command(html, user_data, simple_field_mappings[i])], <<>>)
    \o (LET selector == first_present(html, submit_selectors)
        IN IF IsSome(selector) THEN ClickCommand(Unwrap(selector)) \o <<"\n">> ELSE <<>>)

\* ----------------------------------------------------- is_complex_form

\* str::matches(p).count(): the occurrences of p (one that cannot overlap
\* itself)
CountMatches(s, p) ==
    Cardinality({i \in 1..(Len(s) - Len(p) + 1) : SubSeq(s, i, i + Len(p) - 1) = p})

\* complexity_indicators of is_complex_form
complexity_indicators(html) ==
    <<Contains(html, <<"c","l","a","s","s","=","\"","c","o","m","p","l","e","x">>),
      Contains(html, <<"d","a","t","a","-","s","t","e","p","=">>),
      Contains(html, <<"m","u","l","t","i","-","s","t","e","p">>),
      CountMatches(html, <<"<","i","n","p","u","t">>) > 5,
      Contains(html, <<"j","a","v","a","s","c","r","i","p","t",":">>),
      Contains(html, <<"o","n","c","l","i","c","k","=">>),
      Contains(html, <<"d","a","t","a","-","v","a","l","i","d","a","t","i","o","n","=">>)>>

\* a count of inputs that starts at five
is_complex_form_five_inputs(html) ==
    LET indicators == [complexity_indicators(html) EXCEPT
                          ![4] = CountMatches(html, <<"<","i","n","p","u","t">>) >= 5]
    IN Cardinality({i \in 1..Len(indicators) : indicators[i]}) >= 2

\* is_complex_form
is_complex_form(html) ==
    LET indicators == complexity_indicators(html)
    IN Cardinality({i \in 1..Len(indicators) : indicators[i]}) >= 2

\* --------------------------------------------- parse_dsl_from_response

\* the five verbs of the DSL
DslVerbs == <<<<"c","l","i","c","k">>, <<"t","y","p","e">>, <<"u","p","l","o","a","d">>, <<"h","o","v","e","r">>, <<"w","a","i","t">>>>

\* the filter of parse_dsl_from_response, on a trimmed line
is_dsl_line(line) ==
    /\ ~IsEmpty(line)
    /\ ~StartsWith(line, <<"/","/">>)
    /\ ~StartsWith(line, <<"#">>)
    /\ \/ StartsWith(line, <<"c","l","i","c","k">>)
       \/ StartsWith(line, <<"t","y","p","e">>)
       \/ StartsWith(line, <<"u","p","l","o","a","d">>)
       \/ StartsWith(line, <<"h","o","v","e","r">>)
       \/ StartsWith(line, <<"w","a","i","t">>)

\* a parse that filters the lines as they are and trims none
parse_dsl_from_response_untrimmed(response) ==
    Join(SelectSeq(Lines(response), is_dsl_line), <<"\n">>)

\* parse_dsl_from_response
parse_dsl_from_response(response) ==
    LET lines == Lines(response)
        trimmed == [i \in 1..Len(lines) |-> Trim(lines[i])]
    IN Join(SelectSeq(trimmed, is_dsl_line), <<"\n">>)

\* ------------------------------------------- tagui::validate_dsl_script

\* str::split_whitespace: the maximal runs of characters that are not
\* whitespace, in order
SplitWhitespace(s) ==
    LET starts == {i \in 1..Len(s) : ~IsWhitespace(s[i]) /\ (i = 1 \/ IsWhitespace(s[i - 1]))}
        start(k) == CHOOSE i \in starts : Cardinality({j \in starts : j < i}) = k - 1
        stop(i) == CHOOSE j \in i..Len(s) :
                       /\ \A m \in i..j : ~IsWhitespace(s[m])
                       /\ j = Len(s) \/ IsWhitespace(s[j + 1])
    IN [k \in 1..Cardinality(starts) |-> SubSeq(s, start(k), stop(start(k)))]

IsDigit(c) == c \in {"0", "1", "2", "3", "4", "5", "6", "7", "8", "9"}

IsDigits(s) == \A i \in 1..Len(s) : IsDigit(s[i])

StripSign(s) == IF s # <<>> /\ s[1] \in {"+", "-"} THEN Tail(s) ELSE s

\* str::parse::<f64>().is_ok(): a sign, then inf, infinity or nan in any
\* case, or digits with at most one point and at least one digit, then
\* possibly e or E, a sign and digits
ParsesAsF64(s) ==
    LET body == StripSign(s)
        es == {i \in 1..Len(body) : body[i] \in {"e", "E"}}
        e == IF es = {} THEN Len(body) + 1 ELSE CHOOSE i \in es : \A j \in es : i <= j
        mantissa == SubSeq(body, 1, e - 1)
        exponent == StripSign(SubSeq(body, e + 1, Len(body)))
        points == {i \in 1..Len(mantissa) : mantissa[i] = "."}
    IN \/ ToLowercase(body) \in {<<"i","n","f">>, <<"i","n","f","i","n","i","t","y">>, <<"n","a","n">>}
       \/ /\ Cardinality(points) <= 1
          /\ \A i \in 1..Len(mantissa) : IsDigit(mantissa[i]) \/ mantissa[i] = "."
          /\ \E i \in 1..Len(mantissa) : IsDigit(mantissa[i])
          /\ e <= Len(body) => (exponent # <<>> /\ IsDigits(exponent))

\* the body of the loop of validate_dsl_script: the error of a line, if any
dsl_line_error(raw) ==
    LET line == Trim(raw)
        parts == SplitWhitespace(line)
        command == parts[1]
    IN IF IsEmpty(line) \/ StartsWith(line, <<"/","/">>) THEN None
       ELSE IF parts = <<>> THEN None
       ELSE IF command \notin {<<"c","l","i","c","k">>, <<"t","y","p","e">>, <<"u","p","l","o","a","d">>, <<"h","o","v","e","r">>, <<"w","a","i","t">>}
       THEN Some(<<"I","n","v","a","l","i","d"," ","D","S","L"," ","c","o","m","m","a","n","d",":"," ">> \o command)
       ELSE IF command \in {<<"c","l","i","c","k">>, <<"h","o","v","e","r">>}
       THEN (IF Len(parts) # 2
             THEN Some(<<"C","o","m","m","a","n","d"," ","'">> \o command \o <<"'"," ","r","e","q","u","i","r","e","s"," ","e","x","a","c","t","l","y"," ","o","n","e",
     " ","a","r","g","u","m","e","n","t">>)
             ELSE None)
       ELSE IF command \in {<<"t","y","p","e">>, <<"u","p","l","o","a","d">>}
       THEN (IF Len(parts) < 3
             THEN Some(<<"C","o","m","m","a","n","d"," ","'">> \o command \o <<"'"," ","r","e","q","u","i","r","e","s"," ","a","t"," ","l","e","a","s","t"," ","t","w",
     "o"," ","a","r","g","u","m","e","n","t","s">>)
             ELSE None)
       ELSE IF Len(parts) # 2 THEN Some(<<"C","o","m","m","a","n","d"," ","'","w","a","i","t","'"," ","r","e","q","u","i","r","e",
     "s"," ","e","x","a","c","t","l","y"," ","o","n","e"," ","a","r","g","u","m","e","n","t">>)
       ELSE IF ~ParsesAsF64(parts[2]) THEN Some(<<"W","a","i","t"," ","t","i","m","e"," ","m","u","s","t"," ","b","e"," ","a"," ","n","u",
     "m","b","e","r">>)
       ELSE None

\* tagui::validate_dsl_script: the error of the first line that has one
tagui_validate_dsl_script(script) ==
    LET lines == Lines(script)
        bad == {i \in 1..Len(lines) : IsSome(dsl_line_error(lines[i]))}
    IN IF bad = {} THEN Ok(<<>>)
       ELSE Err(Unwrap(dsl_line_error(lines[CHOOSE i \in bad : \A j \in bad : i <= j])))

\* ---------------------------------------------------------- cache key

\* the keywords of the structural filter of create_cache_key
StructuralKeywords ==
    {<<"<","i","n","p","u","t">>, <<"<","b","u","t","t","o","n">>, <<"<","f","o","r","m">>, <<"<","s","e","l","e","c","t">>,
     <<"t","y","p","e","=">>, <<"i","d","=">>, <<"n","a","m","e","=">>, <<"c","l","a","s","s","=">>}

IsStructuralLine(line) == \E k \in StructuralKeywords : Contains(Trim(line), k)

\* a signature that keeps every line
html_signature_every_line(html) == Join(Lines(html), <<>>)

\* html_signature of create_cache_key
html_signature(html) == Join(SelectSeq(Lines(html), IsStructuralLine), <<>>)

\* impl Hash for str: the bytes, then 0xff
StrHashBytes(s) == Bytes(s) \o <<255>>

\* the sum of f[lo] .. f[hi]
RECURSIVE SumRange(_, _, _)
SumRange(f, lo, hi) ==
    IF lo > hi THEN 0
    ELSE IF lo = hi THEN f[lo]
    ELSE LET mid == (lo + hi) \div 2
         IN SumRange(f, lo, mid) + SumRange(f, mid + 1, hi)

\* DefaultHasher::finish, a deterministic function of the bytes written.
\* SipHash itself is not computed: a position-weighted checksum of
\* HashWidth bits stands for it, many-to-one like the original.
HasherFinish(bytes) ==
    SumRange([i \in 1..Len(bytes) |-> i * bytes[i]], 1, Len(bytes)) % (2 ^ HashWidth)

HexDigits ==
    <<"0","1","2","3","4","5","6","7","8","9","a","b","c","d","e","f">>

\* format!("{:x}", n): lowercase, no leading zeros
RECURSIVE LowerHex(_)
LowerHex(n) ==
    IF n < 16 THEN <<HexDigits[n + 1]>>
    ELSE LowerHex(n \div 16) \o <<HexDigits[(n % 16) + 1]>>

\* the sequences obj.keys() of one map value may yield: serde_json::Map
\* iterates a BTreeMap or an IndexMap, and either yields the entries in the
\* one order in which it holds them
KeyIterations_unordered(user_data) ==
    LET names == ObjectKeys(user_data)
    IN {[i \in 1..Len(names) |-> names[p[i]]] :
           p \in {q \in [1..Len(names) -> 1..Len(names)] :
                     \A i, j \in 1..Len(names) : q[i] = q[j] => i = j}}

KeyIterations(user_data) == {ObjectKeys(user_data)}

\* create_cache_key from line 155 on, for the names that obj.keys() yielded
KeyOf(html, user_keys) ==
    <<"d","s","l","_">> \o LowerHex(HasherFinish(StrHashBytes(html_signature(html))
                                      \o StrHashBytes(Join(user_keys, <<",">>))))

\* create_cache_key
create_cache_key(html, user_data) == KeyOf(html, ObjectKeys(user_data))
\* ------------------------------------------------------------- inputs

HtmlEmpty == <<>>
HtmlWhitespace ==
    <<" "," ","\n","\t">>
HtmlShort ==
    <<"<","a",">">>
HtmlButtonSelect ==
    <<"<","b","u","t","t","o","n"," ","i","d","=","\"","g","o","\"",">","G","o","<","/","b","u",
     "t","t","o","n",">","\n","<","s","e","l","e","c","t"," ","i","d","=","\"","s","\"",">",
     "\n">>
HtmlButtonSelectOneLine ==
    <<"<","b","u","t","t","o","n"," ","i","d","=","\"","g","o","\"",">","G","o","<","/","b","u",
     "t","t","o","n",">","<","s","e","l","e","c","t"," ","i","d","=","\"","s","\"",">">>

HtmlInputs ==
    {HtmlEmpty, HtmlWhitespace, HtmlShort, HtmlButtonSelect,
     HtmlButtonSelectOneLine}

UserNotObject == JsonString(<<"n","o","t","_","a","n","_","o","b","j","e","c","t">>)
UserEmail == JsonObject(<<Entry(<<"e","m","a","i","l">>, JsonString(<<"t","e","s","t","@","e","x","a","m","p","l","e",".","c","o","m">>))>>)

UserInputs == {UserNotObject, UserEmail}

\* the steps by which the clock may advance between two steps, in ms
TickSteps == {TtlMs - BackoffMs, TtlMs}

\* -------------------------------------------------------------- state

\* the requests of one behaviour, numbered in their order of arrival
Calls == {1, 2}

VARIABLES
    now,        \* the clock of the database, NOW(), in ms
    ticks,      \* how often the clock was advanced by Tick
    dsl_cache,  \* table dsl_cache: cache_key -> row
    last_put,   \* history: cache_key -> what the last successful INSERT wrote
    call,       \* per caller: the locals of generate_dsl_script_with_cache
    bitwarden,  \* the BitwardenManager, its clock and its last call
    sessions,   \* the SessionManager's stores: user_sessions, Redis, the callers
    tagui       \* the working directory's temp_script.codialog and the callers

vars == <<now, ticks, dsl_cache, last_put, call, bitwarden, sessions, tagui>>

\* ---------------------------------------------------- BitwardenManager

\* the life of a LoginSession: chrono::Duration::hours(24)
SessionHours == 24

\* how a run of the bw CLI ends: Command::output() is Err (the process did not
\* start), or the process exits with a failure or a success status
CliOutcomes == {"not_started", "failure", "success"}

NoSessionError == "No active Bitwarden session. Please login first."

\* BitwardenManager::new, at hour 0; logged_in and logged_out are history:
\* a login has returned Ok since construction or the last logout that
\* returned Ok; a logout has returned Ok.  last is the call made last, with
\* the session and the history it found, its result and the CLI commands it
\* asked the system to run
BitwardenManager_new ==
    [session |-> None, clock |-> 0, ticks |-> 0, logged_in |-> FALSE,
     logged_out |-> FALSE,
     last |-> [op |-> "new", result |-> Ok(<<>>), ran |-> <<>>,
               session |-> None, logged_in |-> FALSE]]

\* what a method leaves: the session, the result, the commands run
Left(session, result, ran) == [session |-> session, result |-> result, ran |-> ran]

\* BitwardenManager::login
login(b, email, outcome, stdout) ==
    IF outcome = "not_started"
    THEN Left(b.session, Err("Failed to execute bitwarden CLI login command"), <<"login">>)
    ELSE IF outcome = "success"
    THEN Left(Some([session_token |-> Trim(stdout), user_id |-> email,
                    expires_at |-> b.clock + SessionHours]),
              Ok(<<>>), <<"login">>)
    ELSE Left(b.session, Err("Bitwarden login failed"), <<"login">>)

\* BitwardenManager::unlock
unlock(b, outcome, stdout) ==
    IF IsSome(b.session)
    THEN (IF outcome = "not_started"
          THEN Left(b.session, Err("Failed to execute bitwarden CLI unlock command"),
                    <<"unlock">>)
          ELSE IF outcome = "success"
          THEN Left(Some([Unwrap(b.session) EXCEPT !.session_token = Trim(stdout)]),
                    Ok(<<>>), <<"unlock">>)
          ELSE Left(b.session, Err("Bitwarden unlock failed"), <<"unlock">>))
    ELSE Left(b.session, Err(NoSessionError), <<>>)

\* the filter_map of get_all_credentials on one item of the list
IsLoginItem(item) == item.type = 1

\* BitwardenManager::get_all_credentials; items is None for a stdout that is
\* no JSON list
get_all_credentials(b, outcome, items) ==
    IF IsSome(b.session)
    THEN (IF outcome = "not_started"
          THEN Left(b.session, Err("Failed to execute bitwarden CLI list command"),
                    <<"list">>)
          ELSE IF outcome = "success"
          THEN (IF IsSome(items)
                THEN Left(b.session, Ok(SelectSeq(Unwrap(items), IsLoginItem)), <<"list">>)
                ELSE Left(b.session, Err("Failed to parse Bitwarden items JSON"),
                          <<"list">>))
          ELSE Left(b.session, Err("Failed to retrieve Bitwarden credentials"),
                    <<"list">>))
    ELSE Left(b.session, Err(NoSessionError), <<>>)

\* BitwardenManager::get_credentials_for_url
get_credentials_for_url(b, url, outcome, items) ==
    LET all_credentials == get_all_credentials(b, outcome, items)
        matches(cred) == /\ IsSome(cred.uri)
                         /\ (Contains(Unwrap(cred.uri), url) \/ Contains(url, Unwrap(cred.uri)))
    IN IF all_credentials.result.ok
       THEN [all_credentials EXCEPT !.result = Ok(SelectSeq(@.val, matches))]
       ELSE all_credentials

\* BitwardenManager::add_credential; written: the temporary file could be
\* written; created is None for a stdout that is no JSON
add_credential(b, written, outcome, created) ==
    IF IsSome(b.session)
    THEN (IF ~written
          THEN Left(b.session, Err("Failed to write temporary Bitwarden item file"), <<>>)
          ELSE IF outcome = "not_started"
          THEN Left(b.session, Err("Failed to execute bitwarden CLI create command"),
                    <<"create">>)
          ELSE IF outcome = "success"
          THEN (IF IsSome(created)
                THEN Left(b.session, Ok(Unwrap(created)), <<"create">>)
                ELSE Left(b.session, Err("Failed to parse created item response"),
                          <<"create">>))
          ELSE Left(b.session, Err("Failed to add Bitwarden credential"), <<"create">>))
    ELSE Left(b.session, Err(NoSessionError), <<>>)

\* BitwardenManager::is_session_valid
is_session_valid(b) ==
    IF IsSome(b.session) THEN b.clock < Unwrap(b.session).expires_at ELSE FALSE

\* a logout that answers Ok and leaves the session
logout_session_kept(b, outcome) ==
    IF outcome = "not_started"
    THEN Left(b.session, Err("Failed to execute bitwarden CLI logout command"), <<"logout">>)
    ELSE Left(b.session, Ok(<<>>), <<"logout">>)

\* BitwardenManager::logout
logout(b, outcome) ==
    IF outcome = "not_started"
    THEN Left(b.session, Err("Failed to execute bitwarden CLI logout command"), <<"logout">>)
    ELSE Left(None, Ok(<<>>), <<"logout">>)

\* ------------------------------------------------------ SessionManager

\* the life of a session and of its Redis entry: Duration::hours(24) and
\* SETEX .. 86400, in hours
SessionLifeHours == 24
RedisTtlHours == 24

\* the callers of update_session that run concurrently
Updaters == {1, 2}

\* the locals of update_session
IdleUpdate == [pc |-> "idle", session |-> None, result |-> None]

\* SessionManager::new on an empty database and an empty Redis, at hour 0.
\* user_sessions maps session_id to the row (created_at and last_activity,
\* which no query reads back into a decision, are left out), redis maps the
\* key to the entry and the hour it expires at; issued counts the ids
\* Uuid::new_v4 gave out; returned maps a session_id to the UserSession
\* create_session returned to its caller; last is the call made last
SessionManager_new ==
    [user_sessions |-> <<>>, redis |-> <<>>, clock |-> 0, ticks |-> 0,
     issued |-> 0, returned |-> <<>>,
     last |-> [op |-> "new", session_id |-> 0, result |-> Ok(None)],
     update |-> [u \in Updaters |-> IdleUpdate]]

\* format!("session:{}", session_id)
RedisKey(session_id) == <<"session:", session_id>>

\* the table without the rows chosen
WithoutRows(user_sessions, gone) ==
    [id \in DOMAIN user_sessions \ gone |-> user_sessions[id]]

\* INSERT INTO user_sessions .. ON CONFLICT (user_id) DO UPDATE SET
\* session_id, user_data, expires_at, last_activity: the row of the user
\* keeps its bitwarden_session
UpsertSession(user_sessions, session_id, user_id, user_data, expires_at) ==
    LET old == {id \in DOMAIN user_sessions : user_sessions[id].user_id = user_id}
        bitwarden_session ==
            IF old = {} THEN None
            ELSE user_sessions[CHOOSE id \in old : TRUE].bitwarden_session
    IN WithoutRows(user_sessions, old) @@
       (session_id :> [user_id |-> user_id, bitwarden_session |-> bitwarden_session,
                       user_data |-> user_data, expires_at |-> expires_at])

\* SETEX session:{id} 86400 {json}
Setex(redis, session, clock) ==
    [k \in DOMAIN redis \cup {RedisKey(session.session_id)} |->
        IF k = RedisKey(session.session_id)
        THEN [session |-> session, until |-> clock + RedisTtlHours]
        ELSE redis[k]]

\* GET session:{id}: the entry, unless Redis has expired it
RedisGet(redis, session_id, clock) ==
    IF RedisKey(session_id) \in DOMAIN redis /\ clock < redis[RedisKey(session_id)].until
    THEN Some(redis[RedisKey(session_id)].session)
    ELSE None

\* SELECT .. FROM user_sessions WHERE session_id = $1 AND expires_at > NOW()
SelectSession(user_sessions, session_id, clock) ==
    IF session_id \in DOMAIN user_sessions /\ user_sessions[session_id].expires_at > clock
    THEN Some([session_id |-> session_id,
               user_id |-> user_sessions[session_id].user_id,
               bitwarden_session |-> user_sessions[session_id].bitwarden_session,
               user_data |-> user_sessions[session_id].user_data,
               expires_at |-> user_sessions[session_id].expires_at])
    ELSE None

\* UPDATE user_sessions SET bitwarden_session = $1, user_data = $2,
\* last_activity = NOW() WHERE session_id = $3
UpdateRow(user_sessions, session) ==
    IF session.session_id \in DOMAIN user_sessions
    THEN [user_sessions EXCEPT ![session.session_id] =
             [@ EXCEPT !.bitwarden_session = session.bitwarden_session,
                       !.user_data = session.user_data]]
    ELSE user_sessions

\* DELETE FROM user_sessions WHERE expires_at < NOW()
DeleteExpired(user_sessions, clock) ==
    WithoutRows(user_sessions,
                {id \in DOMAIN user_sessions : user_sessions[id].expires_at < clock})

\* SessionManager::get_session on stores s: what it returns and the Redis it
\* leaves.  connected: get_async_connection succeeded; got: the GET was
\* answered; selected: the SELECT was executed; set: the SETEX was executed
get_session(s, session_id, connected, got, selected, set) ==
    LET cached == IF got THEN RedisGet(s.redis, session_id, s.clock) ELSE None
        row == SelectSession(s.user_sessions, session_id, s.clock)
    IN IF ~connected THEN [result |-> Err("redis"), redis |-> s.redis]
       ELSE IF IsSome(cached) /\ Unwrap(cached).expires_at > s.clock
       THEN [result |-> Ok(cached), redis |-> s.redis]
       ELSE IF ~selected
       THEN [result |-> Err("Failed to fetch session from database"), redis |-> s.redis]
       ELSE IF IsSome(row)
       THEN (IF set
             THEN [result |-> Ok(row), redis |-> Setex(s.redis, Unwrap(row), s.clock)]
             ELSE [result |-> Err("redis"), redis |-> s.redis])
       ELSE [result |-> Ok(None), redis |-> s.redis]

\* ------------------------------------------------------ execute_script

\* the calls of execute_script that run concurrently, each on a worker
\* thread of the runtime
Executors == {1, 2}

\* the locals of execute_script; launched is None until Command::output has
\* started tagui, then what temp_script.codialog held at that moment
IdleExecution == [pc |-> "idle", dsl_script |-> <<>>, launched |-> None, result |-> None]

\* the working directory with no temp_script.codialog, and no call under way
NoScriptFile == [file |-> None, exec |-> [e \in Executors |-> IdleExecution]]

IdleCall ==
    [pc |-> "idle", html |-> <<>>, user_data |-> UserNotObject, db_pool |-> FALSE,
     cache_key |-> <<>>, attempt |-> 0, wake |-> 0, script |-> <<>>,
     result |-> None, log |-> <<>>, sleeps |-> <<>>, generated |-> FALSE,
     cache_before |-> <<>>]

Init ==
    /\ now = 0
    /\ ticks = 0
    /\ dsl_cache = <<>>
    /\ last_put = <<>>
    /\ bitwarden = BitwardenManager_new
    /\ sessions = SessionManager_new
    /\ tagui = NoScriptFile
    /\ call = [c \in Calls |-> IdleCall]

\* the SELECT reading the wrong column
SelectScript_html_content(cache, key, t) ==
    IF key \in DOMAIN cache /\ cache[key].expires_at > t
    THEN Some(cache[key].html_content)
    ELSE None

\* the SELECT with  expires_at >= NOW()
SelectScript_inclusive(cache, key, t) ==
    IF key \in DOMAIN cache /\ cache[key].expires_at >= t
    THEN Some(cache[key].script_content)
    ELSE None

\* SELECT script_content FROM dsl_cache WHERE cache_key = $1 AND expires_at > NOW()
SelectScript(cache, key, t) ==
    IF key \in DOMAIN cache /\ cache[key].expires_at > t
    THEN Some(cache[key].script_content)
    ELSE None

\* the INSERT whose ON CONFLICT clause sets script_content only
Upsert_script_only(cache, key, script, html, t) ==
    LET row == [script_content |-> script, html_content |-> html,
                expires_at |-> t + TtlMs]
    IN IF key \in DOMAIN cache
       THEN [cache EXCEPT ![key].script_content = script]
       ELSE cache @@ (key :> row)

\* the INSERT with the binds of script and html swapped
Upsert_swapped(cache, key, script, html, t) ==
    LET row == [script_content |-> html, html_content |-> script,
                expires_at |-> t + TtlMs]
    IN IF key \in DOMAIN cache THEN [cache EXCEPT ![key] = row]
       ELSE cache @@ (key :> row)

\* the INSERT with  ON CONFLICT (cache_key) DO NOTHING
Upsert_do_nothing(cache, key, script, html, t) ==
    LET row == [script_content |-> script, html_content |-> html,
                expires_at |-> t + TtlMs]
    IN IF key \in DOMAIN cache THEN cache ELSE cache @@ (key :> row)

\* INSERT ... VALUES ($1, $2, $3, NOW() + INTERVAL '1 hour') ON CONFLICT (cache_key)
\* DO UPDATE SET script_content, html_content, expires_at
Upsert(cache, key, script, html, t) ==
    LET row == [script_content |-> script, html_content |-> html,
                expires_at |-> t + TtlMs]
    IN IF key \in DOMAIN cache THEN [cache EXCEPT ![key] = row]
       ELSE cache @@ (key :> row)

\* tokio::time::Duration::from_millis(100 * (attempt + 1))
Backoff(attempt) == BackoffMs * (attempt + 1)

\* the guard  attempt < retries : a sleep after the last attempt as well
MayRetry_every_attempt(attempt) == attempt < Retries

\* the guard  attempt < retries - 1  of both retry loops
MayRetry(attempt) == attempt < Retries - 1

\* what the model records of a statement sent to the database, and of a sleep
LogEntry(op, outcome, t) == [op |-> op, outcome |-> outcome, at |-> t]

SleepEntry(op, ms) == [op |-> op, ms |-> ms]

\* generate_dsl_script_with_cache, lines 75-90 and the dispatch of 93
Start(c) ==
    /\ call[c].pc = "idle"
    /\ \E html \in HtmlInputs, user_data \in UserInputs, db_pool \in BOOLEAN :
        LET fresh == [IdleCall EXCEPT !.html = html, !.user_data = user_data,
                                      !.db_pool = db_pool,
                                      !.cache_before = dsl_cache]
        IN call' = [call EXCEPT ![c] =
                IF IsBlank(html)
                THEN [fresh EXCEPT !.pc = "done",
                                   !.result = Some(basic_navigation_script)]
                ELSE [fresh EXCEPT !.cache_key = create_cache_key(html, user_data),
                                   !.pc = IF db_pool THEN "get" ELSE "generate"]]
    /\ UNCHANGED <<now, ticks, dsl_cache, last_put, bitwarden, sessions, tagui>>

\* a get that slides the expiry of the row it returns
GetAnswered_sliding(c) ==
    /\ call[c].pc = "get"
    /\ LET found == SelectScript(dsl_cache, call[c].cache_key, now)
           logged == Append(call[c].log,
                            LogEntry("get", IF IsSome(found) THEN "row" ELSE "none", now))
       IN /\ call' = [call EXCEPT ![c] =
                 IF IsSome(found)
                 THEN [@ EXCEPT !.pc = "done", !.result = Some(Unwrap(found)),
                                !.log = logged]
                 ELSE [@ EXCEPT !.pc = "generate", !.log = logged]]
          /\ dsl_cache' =
                 IF IsSome(found)
                 THEN [dsl_cache EXCEPT ![call[c].cache_key].expires_at = now + TtlMs]
                 ELSE dsl_cache
    /\ UNCHANGED <<now, ticks, last_put, bitwarden, sessions, tagui>>

\* one attempt of get_cached_dsl_script_with_retry that the database answers
GetAnswered(c) ==
    /\ call[c].pc = "get"
    /\ LET found == SelectScript(dsl_cache, call[c].cache_key, now)
           logged == Append(call[c].log,
                            LogEntry("get", IF IsSome(found) THEN "row" ELSE "none", now))
       IN call' = [call EXCEPT ![c] =
               IF IsSome(found)
               THEN [@ EXCEPT !.pc = "done", !.result = Some(Unwrap(found)),
                              !.log = logged]
               ELSE [@ EXCEPT !.pc = "generate", !.log = logged]]
    /\ UNCHANGED <<now, ticks, dsl_cache, last_put, bitwarden, sessions, tagui>>

\* a get whose last failure reaches the caller as an error
GetFailed_surfaced(c) ==
    /\ call[c].pc = "get"
    /\ LET old == call[c]
           logged == Append(old.log, LogEntry("get", "err", now))
       IN call' = [call EXCEPT ![c] =
               IF MayRetry(old.attempt)
               THEN [old EXCEPT !.pc = "get_sleep", !.log = logged,
                                !.wake = now + Backoff(old.attempt),
                                !.sleeps = Append(old.sleeps,
                                    SleepEntry("get", Backoff(old.attempt)))]
               ELSE [old EXCEPT !.pc = "done", !.result = None, !.log = logged]]
    /\ UNCHANGED <<now, ticks, dsl_cache, last_put, bitwarden, sessions, tagui>>

\* a get whose last failure ends the request with the emergency fallback
GetFailed_early_return(c) ==
    /\ call[c].pc = "get"
    /\ LET old == call[c]
           logged == Append(old.log, LogEntry("get", "err", now))
       IN call' = [call EXCEPT ![c] =
               IF MayRetry(old.attempt)
               THEN [old EXCEPT !.pc = "get_sleep", !.log = logged,
                                !.wake = now + Backoff(old.attempt),
                                !.sleeps = Append(old.sleeps,
                                    SleepEntry("get", Backoff(old.attempt)))]
               ELSE [old EXCEPT !.pc = "done", !.log = logged,
                                !.result = Some(generate_emergency_fallback_script)]]
    /\ UNCHANGED <<now, ticks, dsl_cache, last_put, bitwarden, sessions, tagui>>

\* one attempt of get_cached_dsl_script_with_retry that fails
GetFailed(c) ==
    /\ call[c].pc = "get"
    /\ LET old == call[c]
           logged == Append(old.log, LogEntry("get", "err", now))
       IN call' = [call EXCEPT ![c] =
               IF MayRetry(old.attempt)
               THEN [old EXCEPT !.pc = "get_sleep", !.log = logged,
                                !.wake = now + Backoff(old.attempt),
                                !.sleeps = Append(old.sleeps,
                                    SleepEntry("get", Backoff(old.attempt)))]
               ELSE [old EXCEPT !.pc = "generate", !.log = logged]]
    /\ UNCHANGED <<now, ticks, dsl_cache, last_put, bitwarden, sessions, tagui>>

\* the end of a tokio::time::sleep of either retry loop and its `continue`:
\* the next attempt, or the end of the `for` and the Ok after it
Wake(c) ==
    /\ call[c].pc \in {"get_sleep", "put_sleep"}
    /\ now' = IF now < call[c].wake THEN call[c].wake ELSE now
    /\ LET old == call[c]
           woken == [old EXCEPT !.attempt = old.attempt + 1, !.wake = 0]
       IN call' = [call EXCEPT ![c] =
               IF old.attempt + 1 < Retries
               THEN [woken EXCEPT !.pc = IF old.pc = "get_sleep" THEN "get" ELSE "put"]
               ELSE IF old.pc = "get_sleep"
               THEN [woken EXCEPT !.pc = "generate"]
               ELSE [woken EXCEPT !.pc = "done", !.result = Some(old.script)]]
    /\ UNCHANGED <<ticks, dsl_cache, last_put, bitwarden, sessions, tagui>>

\* generate_dsl_script_with_cache, lines 104-131 up to the call of
\* cache_dsl_script_with_retry
Generate(c) ==
    /\ call[c].pc = "generate"
    /\ \E order \in IterationOrders(DOMAIN analyze_elements(call[c].html)) :
        LET script == GeneratedScript(call[c].html, order)
        IN call' = [call EXCEPT ![c] =
                IF validate_generated_script(script) /\ @.db_pool
                THEN [@ EXCEPT !.pc = "put", !.attempt = 0, !.script = script,
                               !.generated = TRUE]
                ELSE [@ EXCEPT !.pc = "done", !.script = script,
                               !.result = Some(script), !.generated = TRUE]]
    /\ UNCHANGED <<now, ticks, dsl_cache, last_put, bitwarden, sessions, tagui>>

\* one attempt of cache_dsl_script_with_retry that the database executes
PutExecuted(c) ==
    /\ call[c].pc = "put"
    /\ dsl_cache' = Upsert(dsl_cache, call[c].cache_key, call[c].script,
                           call[c].html, now)
    /\ last_put' = [k \in DOMAIN last_put \cup {call[c].cache_key} |->
                       IF k = call[c].cache_key
                       THEN [script |-> call[c].script, html |-> call[c].html,
                             user_data |-> call[c].user_data, at |-> now]
                       ELSE last_put[k]]
    /\ call' = [call EXCEPT ![c].pc = "done",
                            ![c].result = Some(call[c].script),
                            ![c].log = Append(@, LogEntry("put", "ok", now))]
    /\ UNCHANGED <<now, ticks, bitwarden, sessions, tagui>>

\* a put whose last failure replaces the script by the emergency fallback
PutFailed_fallback(c) ==
    /\ call[c].pc = "put"
    /\ LET old == call[c]
           logged == Append(old.log, LogEntry("put", "err", now))
       IN call' = [call EXCEPT ![c] =
               IF MayRetry(old.attempt)
               THEN [old EXCEPT !.pc = "put_sleep", !.log = logged,
                                !.wake = now + Backoff(old.attempt),
                                !.sleeps = Append(old.sleeps,
                                    SleepEntry("put", Backoff(old.attempt)))]
               ELSE [old EXCEPT !.pc = "done", !.log = logged,
                                !.result = Some(generate_emergency_fallback_script)]]
    /\ UNCHANGED <<now, ticks, dsl_cache, last_put, bitwarden, sessions, tagui>>

\* one attempt of cache_dsl_script_with_retry that fails
PutFailed(c) ==
    /\ call[c].pc = "put"
    /\ LET old == call[c]
           logged == Append(old.log, LogEntry("put", "err", now))
       IN call' = [call EXCEPT ![c] =
               IF MayRetry(old.attempt)
               THEN [old EXCEPT !.pc = "put_sleep", !.log = logged,
                                !.wake = now + Backoff(old.attempt),
                                !.sleeps = Append(old.sleeps,
                                    SleepEntry("put", Backoff(old.attempt)))]
               ELSE [old EXCEPT !.pc = "done", !.result = Some(old.script),
                                !.log = logged]]
    /\ UNCHANGED <<now, ticks, dsl_cache, last_put, bitwarden, sessions, tagui>>

\* the caller has the script: the locals of the call are dropped
Return(c) ==
    /\ call[c].pc = "done"
    /\ call' = [call EXCEPT ![c] = [IdleCall EXCEPT !.pc = "returned"]]
    /\ UNCHANGED <<now, ticks, dsl_cache, last_put, bitwarden, sessions, tagui>>

\* time passes between two requests, or before a finished request returns.
\* Within a request the only time that passes is that of the sleeps (Wake).
Tick ==
    /\ ticks < MaxTicks
    /\ \A c \in Calls : call[c].pc \in {"idle", "done", "returned"}
    /\ ticks' = ticks + 1
    /\ \E d \in TickSteps : now' = now + d
    /\ UNCHANGED <<dsl_cache, last_put, call, bitwarden, sessions, tagui>>

\* a request arrives when every earlier one has returned: requests are
\* served one after the other
Arrive(c) ==
    /\ \A d \in Calls : d < c => call[d].pc = "returned"
    /\ Start(c)

Next ==
    \/ \E c \in Calls : Arrive(c)
    \/ \E c \in Calls : GetAnswered(c)
    \/ \E c \in Calls : GetFailed(c)
    \/ \E c \in Calls : Wake(c)
    \/ \E c \in Calls : Generate(c)
    \/ \E c \in Calls : PutExecuted(c)
    \/ \E c \in Calls : PutFailed(c)
    \/ \E c \in Calls : Return(c)
    \/ Tick

Spec == Init /\ [][Next]_vars
\* the pages of the inputs that have the cache key of HtmlButtonSelect
SameKeyHtmls ==
    {h \in HtmlInputs : ~IsBlank(h) /\ html_signature(h) = html_signature(HtmlButtonSelect)}

\* a request for one of these pages arrives, with a cache configured,
\* whatever the other requests are doing
ArriveConcurrently(c) ==
    /\ Start(c)
    /\ call'[c].html \in SameKeyHtmls
    /\ call'[c].db_pool

\* requests served concurrently: the steps of the requests interleave at
\* their awaits.  Writes may fail and be retried; reads are answered.
NextConcurrent ==
    \/ \E c \in Calls : ArriveConcurrently(c)
    \/ \E c \in Calls : GetAnswered(c)
    \/ \E c \in Calls : Generate(c)
    \/ \E c \in Calls : PutExecuted(c)
    \/ \E c \in Calls : PutFailed(c)
    \/ \E c \in Calls : Wake(c)
    \/ \E c \in Calls : Return(c)

SpecConcurrent == Init /\ [][NextConcurrent]_vars

\* ------------------------------------------- the functions, called alone

\* pages: HtmlButtonSelect with a line that is not structural before it, and
\* login forms with and without selectors and a login button
HtmlButtonSelectNoise ==
    <<"<","p",">","x","<","/","p",">","\n","<","b","u","t","t","o","n"," ","i","d","=","\"","g",
     "o","\"",">","G","o","<","/","b","u","t","t","o","n",">","\n","<","s","e","l","e","c",
     "t"," ","i","d","=","\"","s","\"",">","\n">>
HtmlPasswordOnly ==
    <<"<","i","n","p","u","t"," ","t","y","p","e","=","\"","p","a","s","s","w","o","r","d","\"",
     " ","i","d","=","\"","p","w","\"",">">>
HtmlLogin ==
    <<"<","i","n","p","u","t"," ","t","y","p","e","=","\"","e","m","a","i","l","\""," ","i","d",
     "=","\"","e","m","\"",">","\n","<","i","n","p","u","t"," ","t","y","p","e","=","\"",
     "p","a","s","s","w","o","r","d","\""," ","i","d","=","\"","p","w","\"",">","\n","<",
     "b","u","t","t","o","n"," ","i","d","=","\"","g","o","\"",">","L","o","g","i","n","<",
     "/","b","u","t","t","o","n",">">>
HtmlLoginNoButton ==
    <<"<","i","n","p","u","t"," ","t","y","p","e","=","\"","e","m","a","i","l","\""," ","i","d",
     "=","\"","e","m","\"",">","\n","<","i","n","p","u","t"," ","t","y","p","e","=","\"",
     "p","a","s","s","w","o","r","d","\""," ","i","d","=","\"","p","w","\"",">">>
HtmlLoginBareButton ==
    <<"<","i","n","p","u","t"," ","t","y","p","e","=","\"","e","m","a","i","l","\""," ","i","d",
     "=","\"","e","m","\"",">","\n","<","i","n","p","u","t"," ","t","y","p","e","=","\"",
     "p","a","s","s","w","o","r","d","\""," ","i","d","=","\"","p","w","\"",">","\n","<",
     "b","u","t","t","o","n"," ","t","y","p","e","=","\"","s","u","b","m","i","t","\"",">",
     "L","o","g","i","n","<","/","b","u","t","t","o","n",">">>
HtmlLoginBareEmail ==
    <<"<","i","n","p","u","t"," ","t","y","p","e","=","\"","e","m","a","i","l","\"",">","\n",
     "<","i","n","p","u","t"," ","t","y","p","e","=","\"","p","a","s","s","w","o","r","d",
     "\""," ","i","d","=","\"","p","w","\"",">">>
HtmlLoginTextAndEmail ==
    <<"<","i","n","p","u","t"," ","t","y","p","e","=","\"","e","m","a","i","l","\""," ","i","d",
     "=","\"","e","m","\"",">","\n","<","i","n","p","u","t"," ","t","y","p","e","=","\"",
     "t","e","x","t","\""," ","n","a","m","e","=","\"","u","n","\"",">","\n","<","i","n",
     "p","u","t"," ","t","y","p","e","=","\"","p","a","s","s","w","o","r","d","\""," ","i",
     "d","=","\"","p","w","\"",">">>

FnHtmls ==
    {HtmlShort, HtmlButtonSelect, HtmlButtonSelectOneLine, HtmlButtonSelectNoise,
     HtmlPasswordOnly, HtmlLogin, HtmlLoginNoButton, HtmlLoginBareButton,
     HtmlLoginBareEmail, HtmlLoginTextAndEmail}

\* profiles, as the insertions that build them: none; email and password in
\* both orders; another password; a username in place of the email
FnInsertions ==
    {<<>>,
     <<Entry(<<"e","m","a","i","l">>, JsonString(<<"a","@","b">>)), Entry(<<"p","a","s","s","w","o","r","d">>, JsonString(<<"x">>))>>,
     <<Entry(<<"p","a","s","s","w","o","r","d">>, JsonString(<<"x">>)), Entry(<<"e","m","a","i","l">>, JsonString(<<"a","@","b">>))>>,
     <<Entry(<<"e","m","a","i","l">>, JsonString(<<"a","@","b">>)), Entry(<<"p","a","s","s","w","o","r","d">>, JsonString(<<"y","\"">>))>>,
     <<Entry(<<"u","s","e","r","n","a","m","e">>, JsonString(<<"u">>)), Entry(<<"p","a","s","s","w","o","r","d">>, JsonString(<<"x">>))>>,
     <<Entry(<<"e","m","a","i","l">>, JsonString(<<>>)), Entry(<<"u","s","e","r","n","a","m","e">>, JsonString(<<"u">>)),
       Entry(<<"p","a","s","s","w","o","r","d">>, JsonString(<<"x">>))>>}

FnUsers(build) ==
    {UserNotObject} \cup {JsonObject(MapFrom(build, ins)) : ins \in FnInsertions}

\* the locals of one call of a function of llm.rs on its own
FnArgs(build, html, user_data) ==
    [pc |-> "args", build |-> build, html |-> html, user_data |-> user_data,
     html2 |-> <<>>, user_data2 |-> UserNotObject, order |-> <<>>,
     chain |-> None, tried |-> <<>>, out |-> None, out2 |-> None, text |-> <<>>]

\* the locals of a call of a function that takes neither the html nor the
\* profile the caller holds
FnLocals == FnArgs(call.build, <<>>, UserNotObject)

InitFn ==
    /\ now = 0
    /\ ticks = 0
    /\ dsl_cache = <<>>
    /\ last_put = <<>>
    /\ bitwarden = BitwardenManager_new
    /\ sessions = SessionManager_new
    /\ tagui = NoScriptFile
    /\ \E build \in Builds, html \in FnHtmls :
           \E user_data \in FnUsers(build) : call = FnArgs(build, html, user_data)

\* generate_dsl_script(html, user_data), called twice: the orchestrator with
\* no cache.  Of the first call the result of the chain and the tiers it
\* evaluated are kept as well.
Call_generate_dsl_script ==
    /\ call.pc = "args"
    /\ \E order, order2 \in IterationOrders(DOMAIN analyze_elements(call.html)) :
           call' = [call EXCEPT
               !.pc = "generate_dsl_script",
               !.order = order,
               !.chain = Some(generate_script_with_comprehensive_fallbacks(call.html, order)),
               !.tried = TiersTried(call.html, order),
               !.out = Some(IF IsBlank(call.html) THEN basic_navigation_script
                            ELSE GeneratedScript(call.html, order)),
               !.out2 = Some(IF IsBlank(call.html) THEN basic_navigation_script
                             ELSE GeneratedScript(call.html, order2))]
    /\ UNCHANGED <<now, ticks, dsl_cache, last_put, bitwarden, sessions, tagui>>

\* generate_fallback_script(html, user_data)
Call_generate_fallback_script ==
    /\ call.pc = "args"
    /\ call' = [call EXCEPT !.pc = "generate_fallback_script",
                            !.out = Some(generate_basic_fallback_script)]
    /\ UNCHANGED <<now, ticks, dsl_cache, last_put, bitwarden, sessions, tagui>>

\* create_cache_key(html, user_data), and create_cache_key for a second pair
\* of arguments
Call_create_cache_key ==
    /\ call.pc = "args"
    /\ \E html2 \in FnHtmls, user_data2 \in FnUsers(call.build) :
       \E keys \in KeyIterations(call.user_data), keys2 \in KeyIterations(user_data2) :
           call' = [call EXCEPT !.pc = "create_cache_key",
                                !.html2 = html2, !.user_data2 = user_data2,
                                !.out = Some(KeyOf(call.html, keys)),
                                !.out2 = Some(KeyOf(html2, keys2))]
    /\ UNCHANGED <<now, ticks, dsl_cache, last_put, bitwarden, sessions, tagui>>

\* generate_login_sequence(&FormAnalyzer::new(html), user_data)
Call_generate_login_sequence ==
    /\ call.pc = "args"
    /\ call' = [call EXCEPT
           !.pc = "generate_login_sequence",
           !.out = generate_login_sequence(analyze_elements(call.html), call.user_data)]
    /\ UNCHANGED <<now, ticks, dsl_cache, last_put, bitwarden, sessions, tagui>>

\* FormAnalyzer::new(html), then is_login_form() and generate_login_sequence
\* on the same analyzer
Call_is_login_form ==
    /\ call.pc = "args"
    /\ LET elements == analyze_elements(call.html)
       IN call' = [call EXCEPT
              !.pc = "is_login_form",
              !.out = Some(is_login_form(elements)),
              !.out2 = generate_login_sequence(elements, call.user_data)]
    /\ UNCHANGED <<now, ticks, dsl_cache, last_put, bitwarden, sessions, tagui>>

\* field_mappings of generate_field_filling_sequence
field_mappings ==
    <<[data_key |-> <<"f","u","l","l","n","a","m","e">>, input_types |-> <<<<"t","e","x","t">>>>,
       field_names |-> <<<<"f","u","l","l","n","a","m","e">>, <<"f","u","l","l","-","n","a","m","e">>, <<"n","a","m","e">>, <<"f","i","r","s","t","n","a","m","e">>, <<"f","i","r","s","t","-","n","a","m","e">>>>],
      [data_key |-> <<"e","m","a","i","l">>, input_types |-> <<<<"e","m","a","i","l">>, <<"t","e","x","t">>>>,
       field_names |-> <<<<"e","m","a","i","l">>, <<"e","-","m","a","i","l">>, <<"m","a","i","l">>>>],
      [data_key |-> <<"p","h","o","n","e">>, input_types |-> <<<<"t","e","l">>, <<"t","e","x","t">>>>,
       field_names |-> <<<<"p","h","o","n","e">>, <<"t","e","l","e","p","h","o","n","e">>, <<"t","e","l">>, <<"m","o","b","i","l","e">>>>],
      [data_key |-> <<"u","s","e","r","n","a","m","e">>, input_types |-> <<<<"t","e","x","t">>>>,
       field_names |-> <<<<"u","s","e","r","n","a","m","e">>, <<"u","s","e","r">>, <<"l","o","g","i","n">>>>]>>

\* field_names.iter().any(|name| selector_lower.contains(name))
selector_matches(selector, field_names) ==
    \E i \in 1..Len(field_names) : Contains(ToLowercase(selector), field_names[i])

\* for selector in selectors { if matches { actions.push(..); break; } }
RECURSIVE first_match_command(_, _, _)
first_match_command(selectors, field_names, value) ==
    IF selectors = <<>> THEN <<>>
    ELSE IF selector_matches(Head(selectors), field_names)
    THEN <<TypeCommand(Head(selectors), value)>>
    ELSE first_match_command(Tail(selectors), field_names, value)

\* for input_type in input_types { if let Some(selectors) = .. { .. } }
RECURSIVE input_type_commands(_, _, _, _)
input_type_commands(elements, input_types, field_names, value) ==
    IF input_types = <<>> THEN <<>>
    ELSE (IF Head(input_types) \in DOMAIN elements
          THEN first_match_command(elements[Head(input_types)], field_names, value)
          ELSE <<>>)
         \o input_type_commands(elements, Tail(input_types), field_names, value)

\* the body of the loop over field_mappings, for one mapping
mapping_commands(elements, user_data, mapping) ==
    LET value == GetStr(user_data, mapping.data_key)
    IN IF IsSome(value) /\ ~IsEmpty(Unwrap(value))
       THEN input_type_commands(elements, mapping.input_types, mapping.field_names,
                                Unwrap(value))
       ELSE <<>>

RECURSIVE field_filling_from(_, _, _)
field_filling_from(elements, user_data, i) ==
    IF i > Len(field_mappings) THEN <<>>
    ELSE mapping_commands(elements, user_data, field_mappings[i])
         \o field_filling_from(elements, user_data, i + 1)

\* generate_field_filling_sequence
generate_field_filling_sequence(elements, user_data) ==
    field_filling_from(elements, user_data, 1)

\* the test of generate_checkbox_sequence on one selector
is_agreement_selector(selector) ==
    LET selector_lower == ToLowercase(selector)
    IN \/ Contains(selector_lower, <<"t","e","r","m","s">>)
       \/ Contains(selector_lower, <<"a","g","r","e","e">>)
       \/ Contains(selector_lower, <<"c","o","n","s","e","n","t">>)
       \/ Contains(selector_lower, <<"g","d","p","r">>)

RECURSIVE checkbox_clicks(_)
checkbox_clicks(selectors) ==
    IF selectors = <<>> THEN <<>>
    ELSE (IF is_agreement_selector(Head(selectors))
          THEN <<ClickCommand(Head(selectors))>> ELSE <<>>)
         \o checkbox_clicks(Tail(selectors))

\* generate_checkbox_sequence
generate_checkbox_sequence(elements) ==
    IF <<"c","h","e","c","k","b","o","x">> \in DOMAIN elements
    THEN checkbox_clicks(elements[<<"c","h","e","c","k","b","o","x">>])
    ELSE <<>>

\* pages for the field and checkbox sequences: the form of the tests; a text
\* input named after the email next to the email input; a text input with
\* the id username; a checkbox known by its id only; a checkbox that is no
\* agreement
FormHtmlTest ==
    <<"\n"," "," "," "," ","<","f","o","r","m",">","\n"," "," "," "," "," "," "," "," ","<","i",
     "n","p","u","t"," ","t","y","p","e","=","\"","e","m","a","i","l","\""," ","n","a","m",
     "e","=","\"","e","m","a","i","l","\""," ","i","d","=","\"","e","m","a","i","l","\"",
     ">","\n"," "," "," "," "," "," "," "," ","<","i","n","p","u","t"," ","t","y","p","e",
     "=","\"","p","a","s","s","w","o","r","d","\""," ","n","a","m","e","=","\"","p","a","s",
     "s","w","o","r","d","\""," ","i","d","=","\"","p","a","s","s","w","o","r","d","\"",">",
     "\n"," "," "," "," "," "," "," "," ","<","i","n","p","u","t"," ","t","y","p","e","=",
     "\"","t","e","x","t","\""," ","n","a","m","e","=","\"","n","a","m","e","\""," ","i",
     "d","=","\"","n","a","m","e","\"",">","\n"," "," "," "," "," "," "," "," ","<","i","n",
     "p","u","t"," ","t","y","p","e","=","\"","f","i","l","e","\""," ","n","a","m","e","=",
     "\"","r","e","s","u","m","e","\""," ","i","d","=","\"","r","e","s","u","m","e","\"",
     ">","\n"," "," "," "," "," "," "," "," ","<","i","n","p","u","t"," ","t","y","p","e",
     "=","\"","c","h","e","c","k","b","o","x","\""," ","n","a","m","e","=","\"","t","e","r",
     "m","s","\""," ","i","d","=","\"","t","e","r","m","s","\"",">","\n"," "," "," "," ",
     " "," "," "," ","<","b","u","t","t","o","n"," ","t","y","p","e","=","\"","s","u","b",
     "m","i","t","\"",">","S","u","b","m","i","t","<","/","b","u","t","t","o","n",">","\n",
     " "," "," "," ","<","/","f","o","r","m",">","\n"," "," "," "," ">>
FormHtmlTwoMail ==
    <<"<","i","n","p","u","t"," ","t","y","p","e","=","\"","e","m","a","i","l","\""," ","i","d",
     "=","\"","e","m","a","i","l","\"",">","\n","<","i","n","p","u","t"," ","t","y","p","e",
     "=","\"","t","e","x","t","\""," ","i","d","=","\"","m","a","i","l","2","\"",">">>
FormHtmlUsername == <<"<","i","n","p","u","t"," ","t","y","p","e","=","\"","t","e","x","t","\""," ","i","d","=",
     "\"","u","s","e","r","n","a","m","e","\"",">">>
FormHtmlTermsById == <<"<","i","n","p","u","t"," ","t","y","p","e","=","\"","c","h","e","c","k","b","o","x","\"",
     " ","i","d","=","\"","t","e","r","m","s","\"",">","\n","<","i","n","p","u","t"," ","t",
     "y","p","e","=","\"","c","h","e","c","k","b","o","x","\""," ","i","d","=","\"","g","d",
     "p","r","\"",">">>
FormHtmlNewsletter == <<"<","i","n","p","u","t"," ","t","y","p","e","=","\"","c","h","e","c","k","b","o","x","\"",
     " ","n","a","m","e","=","\"","n","e","w","s","l","e","t","t","e","r","\"",">">>
FormHtmls ==
    {FormHtmlTest, FormHtmlTwoMail, FormHtmlUsername, FormHtmlTermsById,
     FormHtmlNewsletter}

\* profiles for generate_field_filling_sequence: none; an email; a full name
\* and a username; all four fields, the phone empty
FormInsertions ==
    {<<>>,
     <<Entry(<<"e","m","a","i","l">>, JsonString(<<"a","@","b">>))>>,
     <<Entry(<<"f","u","l","l","n","a","m","e">>, JsonString(<<"N">>)), Entry(<<"u","s","e","r","n","a","m","e">>, JsonString(<<"u">>))>>,
     <<Entry(<<"f","u","l","l","n","a","m","e">>, JsonString(<<"N">>)), Entry(<<"e","m","a","i","l">>, JsonString(<<"a","@","b">>)),
       Entry(<<"p","h","o","n","e">>, JsonString(<<>>)), Entry(<<"u","s","e","r","n","a","m","e">>, JsonString(<<"u">>))>>}

\* generate_field_filling_sequence(&FormAnalyzer::new(html), user_data)
Call_generate_field_filling_sequence ==
    /\ call.pc = "args"
    /\ \E html \in FormHtmls, ins \in FormInsertions :
           LET user_data == JsonObject(MapFrom(call.build, ins))
           IN call' = [FnLocals EXCEPT
                  !.pc = "generate_field_filling_sequence",
                  !.html = html,
                  !.user_data = user_data,
                  !.out = Some(generate_field_filling_sequence(
                                   analyze_elements(html), user_data))]
    /\ UNCHANGED <<now, ticks, dsl_cache, last_put, bitwarden, sessions, tagui>>

\* generate_checkbox_sequence(&FormAnalyzer::new(html))
Call_generate_checkbox_sequence ==
    /\ call.pc = "args"
    /\ \E html \in FormHtmls :
           call' = [FnLocals EXCEPT
               !.pc = "generate_checkbox_sequence",
               !.html = html,
               !.out = Some(generate_checkbox_sequence(analyze_elements(html)))]
    /\ UNCHANGED <<now, ticks, dsl_cache, last_put, bitwarden, sessions, tagui>>

\* pages for generate_simple_dsl: the page of test_simple_dsl_generation; a
\* page with a login button, fields known by name and by type, and a submit
\* button known by type; a page with no field
SimpleHtmlTest ==
    <<"\n","<","i","n","p","u","t"," ","i","d","=","\"","u","s","e","r","n","a","m","e","\"",
     " ","t","y","p","e","=","\"","t","e","x","t","\"",">","\n","<","i","n","p","u","t"," ",
     "i","d","=","\"","p","a","s","s","w","o","r","d","\""," ","t","y","p","e","=","\"","p",
     "a","s","s","w","o","r","d","\"",">","\n","<","b","u","t","t","o","n"," ","i","d","=",
     "\"","s","u","b","m","i","t","\"",">","L","o","g","i","n","<","/","b","u","t","t","o",
     "n",">","\n">>
SimpleHtmlByName ==
    <<"<","a"," ","c","l","a","s","s","=","\"","l","o","g","i","n","-","l","i","n","k","\"",">",
     "i","n","<","/","a",">","\n","<","i","n","p","u","t"," ","n","a","m","e","=","\"","e",
     "m","a","i","l","\"",">","\n","<","i","n","p","u","t"," ","t","y","p","e","=","\"","f",
     "i","l","e","\"",">","\n","<","b","u","t","t","o","n"," ","t","y","p","e","=","\"","s",
     "u","b","m","i","t","\"",">","S","e","n","d","<","/","b","u","t","t","o","n",">">>
SimpleHtmls == {SimpleHtmlTest, SimpleHtmlByName, HtmlShort}

\* profiles for generate_simple_dsl
SimpleInsertions ==
    {<<>>,
     <<Entry(<<"u","s","e","r","n","a","m","e">>, JsonString(<<"j","o","h","n",".","d","o","e">>)),
       Entry(<<"p","a","s","s","w","o","r","d">>, JsonString(<<"s","e","c","r","e","t","1","2","3">>))>>,
     <<Entry(<<"u","s","e","r","n","a","m","e">>, JsonString(<<>>)), Entry(<<"e","m","a","i","l">>, JsonString(<<"a","@","b">>)),
       Entry(<<"c","v","_","p","a","t","h">>, JsonString(<<"c",":","\\","c","v">>))>>,
     <<Entry(<<"c","v","_","p","a","t","h">>, JsonString(<<"c","v">>)), Entry(<<"u","s","e","r","n","a","m","e">>, JsonString(<<"u","\"">>)),
       Entry(<<"e","m","a","i","l">>, JsonString(<<"a","@","b">>))>>}

SimpleUsers(build) ==
    {UserNotObject} \cup {JsonObject(MapFrom(build, ins)) : ins \in SimpleInsertions}

\* generate_simple_dsl(html, user_data)
Call_generate_simple_dsl ==
    /\ call.pc = "args"
    /\ \E html \in SimpleHtmls, user_data \in SimpleUsers(call.build) :
           call' = [call EXCEPT !.pc = "generate_simple_dsl",
                                !.html = html, !.user_data = user_data,
                                !.out = Some(generate_simple_dsl(html, user_data))]
    /\ UNCHANGED <<now, ticks, dsl_cache, last_put, bitwarden, sessions, tagui>>

\* pages for is_complex_form, one for every choice of what the page has: a
\* class that starts with complex, a data-step attribute, the word
\* multi-step, six inputs in place of five, a javascript: link, an onclick
\* attribute, a data-validation attribute
ComplexFragments ==
    <<<<"<","f","o","r","m"," ","c","l","a","s","s","=","\"","c","o","m","p","l","e","x","-","f",
     "o","r","m","\"",">","\n">>,
      <<"<","d","i","v"," ","d","a","t","a","-","s","t","e","p","=","\"","1","\"",">","\n">>,
      <<"<","p",">","m","u","l","t","i","-","s","t","e","p","<","/","p",">","\n">>,
      <<"<","i","n","p","u","t"," ","t","y","p","e","=","\"","t","e","l","\"",">","\n">>,
      <<"<","a"," ","h","r","e","f","=","\"","j","a","v","a","s","c","r","i","p","t",":","g","o",
     "(",")","\"",">","x","<","/","a",">","\n">>,
      <<"<","b","u","t","t","o","n"," ","o","n","c","l","i","c","k","=","\"","g","o","(",")","\"",
     ">","N","e","x","t","<","/","b","u","t","t","o","n",">","\n">>,
      <<"<","i"," ","d","a","t","a","-","v","a","l","i","d","a","t","i","o","n","=","\"","r","e",
     "q","u","i","r","e","d","\"",">","\n">>>>

FiveInputs ==
    <<"<","i","n","p","u","t",">","\n","<","i","n","p","u","t",">","\n","<","i","n","p","u","t",
     ">","\n","<","i","n","p","u","t",">","\n","<","i","n","p","u","t",">","\n">>

ComplexPage(has) ==
    FiveInputs \o Join([i \in 1..7 |-> IF has[i] THEN ComplexFragments[i] ELSE <<>>], <<>>)

ComplexChoices == [1..7 -> BOOLEAN]

\* is_complex_form(html)
Call_is_complex_form ==
    /\ call.pc = "args"
    /\ \E has \in ComplexChoices :
           call' = [FnLocals EXCEPT !.pc = "is_complex_form",
                                    !.html = ComplexPage(has),
                                    !.out = Some(is_complex_form(ComplexPage(has)))]
    /\ UNCHANGED <<now, ticks, dsl_cache, last_put, bitwarden, sessions, tagui>>

\* the most lines of a response
MaxResponseLines == 2

\* lines of a response: commands, bare or indented or ended by a carriage
\* return; comments; a blank line; commentary with a verb inside it and
\* commentary that begins with the letters of a verb
ResponseLines ==
    {<<"c","l","i","c","k"," ","\"","#","a","\"">>, <<" "," ","t","y","p","e"," ","\"","#","u","\""," ","\"","v","\""," ">>, <<"\t","u","p","l","o","a","d"," ","\"","#","f","\""," ","\"","p","\"">>, <<"h","o","v","e","r"," ","\"","#","h","\"","\r">>,
     <<"/","/"," ","w","a","i","t"," ","1">>, <<"#"," ","w","a","i","t"," ","1">>, <<" "," ">>, <<"T","h","e","n",":"," ","w","a","i","t"," ","2">>, <<"t","y","p","e","d"," ","t","e","x","t">>}

Responses ==
    UNION {{Join(lines, <<"\n">>) : lines \in [1..n -> ResponseLines]} :
               n \in 0..MaxResponseLines}

\* parse_dsl_from_response(response), and the same applied to its result
Call_parse_dsl_from_response ==
    /\ call.pc = "args"
    /\ \E response \in Responses :
           call' = [FnLocals EXCEPT
               !.pc = "parse_dsl_from_response",
               !.text = response,
               !.out = Some(parse_dsl_from_response(response)),
               !.out2 = Some(parse_dsl_from_response(parse_dsl_from_response(response)))]
    /\ UNCHANGED <<now, ticks, dsl_cache, last_put, bitwarden, sessions, tagui>>

\* the most lines of a script handed to the validator
MaxScriptLines == 2

\* lines of a script: commands of each verb with the arguments the DSL
\* gives them; a selector and a value with a space inside the quotes; a
\* command short of an argument; an argument without quotes; a wait that
\* is not a number; an unknown verb; a comment; a blank line
ScriptLines ==
    {<<"c","l","i","c","k"," ","\"","#","a","\"">>, <<"c","l","i","c","k"," ","\"","#","a"," ",".","b","\"">>, <<"c","l","i","c","k"," ","#","a">>, <<"h","o","v","e","r"," ","\"","#","h","\"">>,
     <<"t","y","p","e"," ","\"","#","u","\""," ","\"","J"," ","D","\"">>, <<"u","p","l","o","a","d"," ","\"","#","f","\"">>, <<" "," ","w","a","i","t"," ","1",".","5">>, <<"w","a","i","t"," ","s","o","o","n">>,
     <<"p","r","e","s","s"," ","\"","#","k","\"">>, <<"/","/"," ","n","o","t","e">>, <<>>}

Scripts ==
    UNION {{Join(lines, <<"\n">>) : lines \in [1..n -> ScriptLines]} :
               n \in 1..MaxScriptLines}

\* tagui::validate_dsl_script(script)
Call_tagui_validate_dsl_script ==
    /\ call.pc = "args"
    /\ \E script \in Scripts :
           call' = [FnLocals EXCEPT !.pc = "tagui_validate_dsl_script",
                                    !.text = script,
                                    !.out = Some(tagui_validate_dsl_script(script))]
    /\ UNCHANGED <<now, ticks, dsl_cache, last_put, bitwarden, sessions, tagui>>

\* the most characters of a value handed to escape_for_dsl
MaxInputLen == 4

\* values made of backslashes, quotes and a letter
EscapeInputs ==
    UNION {[1..n -> {"\\", "\"", "a"}] : n \in 0..MaxInputLen}

\* escape_for_dsl(input)
Call_escape_for_dsl ==
    /\ call.pc = "args"
    /\ \E input \in EscapeInputs :
           call' = [FnLocals EXCEPT !.pc = "escape_for_dsl",
                                    !.text = input,
                                    !.out = Some(escape_for_dsl(input))]
    /\ UNCHANGED <<now, ticks, dsl_cache, last_put, bitwarden, sessions, tagui>>

\* the most characters of a script of spaces and letters
MaxScriptLen == 7

\* scripts for validate_generated_script: every text of spaces and a
\* letter; a command with its quotes closed and the same with the last quote
\* left open; the emergency script
GeneratedScripts ==
    UNION {[1..n -> {" ", "a"}] : n \in 0..MaxScriptLen}
    \cup {<<"w","a","i","t"," ","2","\n","t","y","p","e"," ","\"","#","e","\""," ","\"","x","\"","\n">>, <<"w","a","i","t"," ","2","\n","t","y","p","e"," ","\"","#","e","\""," ","\"","x","\n">>,
          generate_emergency_fallback_script}

\* validate_generated_script(script)
Call_validate_generated_script ==
    /\ call.pc = "args"
    /\ \E script \in GeneratedScripts :
           call' = [FnLocals EXCEPT !.pc = "validate_generated_script",
                                    !.text = script,
                                    !.out = Some(validate_generated_script(script))]
    /\ UNCHANGED <<now, ticks, dsl_cache, last_put, bitwarden, sessions, tagui>>

NextFn ==
    \/ Call_generate_dsl_script
    \/ Call_generate_fallback_script
    \/ Call_create_cache_key
    \/ Call_generate_login_sequence
    \/ Call_generate_simple_dsl
    \/ Call_is_complex_form
    \/ Call_parse_dsl_from_response
    \/ Call_tagui_validate_dsl_script
    \/ Call_escape_for_dsl
    \/ Call_validate_generated_script
    \/ Call_is_login_form
    \/ Call_generate_field_filling_sequence
    \/ Call_generate_checkbox_sequence

SpecFn == InitFn /\ [][NextFn]_vars

\* ------------------------------------------- calls of the BitwardenManager

\* the most advances of the manager's clock
MaxBwTicks == 3

\* the hours the clock advances by
BwTickHours == 12

BwEmails == {<<"a","@","x">>}
BwStdouts == {<<>>, <<"t","1","\n">>, <<" ","t","2">>}
BwUrls == {<<"a",".","c","o","m">>, <<"b",".","o","r","g">>}

\* the items `bw list items` prints: a login with a uri, a note, a login
\* without uri
BwItems ==
    <<[type |-> 1, uri |-> Some(<<"h","t","t","p","s",":","/","/","a",".","c","o","m","/","l","o","g","i","n">>)],
      [type |-> 2, uri |-> None],
      [type |-> 1, uri |-> None]>>

\* the manager after a call of the method op that left `left`
AfterCall(op, left) ==
    [bitwarden EXCEPT
        !.session = left.session,
        !.logged_in = IF op = "login" /\ left.result.ok THEN TRUE
                      ELSE IF op = "logout" /\ left.result.ok THEN FALSE
                      ELSE @,
        !.logged_out = IF op = "logout" /\ left.result.ok THEN TRUE ELSE @,
        !.last = [op |-> op, result |-> left.result, ran |-> left.ran,
                  session |-> bitwarden.session, logged_in |-> bitwarden.logged_in]]

Bitwarden_login ==
    /\ \E email \in BwEmails, outcome \in CliOutcomes, stdout \in BwStdouts :
           bitwarden' = AfterCall("login", login(bitwarden, email, outcome, stdout))
    /\ UNCHANGED <<now, ticks, dsl_cache, last_put, call, sessions, tagui>>

Bitwarden_unlock ==
    /\ \E outcome \in CliOutcomes, stdout \in BwStdouts :
           bitwarden' = AfterCall("unlock", unlock(bitwarden, outcome, stdout))
    /\ UNCHANGED <<now, ticks, dsl_cache, last_put, call, sessions, tagui>>

Bitwarden_get_all_credentials ==
    /\ \E outcome \in CliOutcomes, items \in {None, Some(BwItems)} :
           bitwarden' = AfterCall("get_all_credentials",
                                  get_all_credentials(bitwarden, outcome, items))
    /\ UNCHANGED <<now, ticks, dsl_cache, last_put, call, sessions, tagui>>

Bitwarden_get_credentials_for_url ==
    /\ \E url \in BwUrls, outcome \in CliOutcomes, items \in {None, Some(BwItems)} :
           bitwarden' = AfterCall("get_credentials_for_url",
                                  get_credentials_for_url(bitwarden, url, outcome, items))
    /\ UNCHANGED <<now, ticks, dsl_cache, last_put, call, sessions, tagui>>

Bitwarden_add_credential ==
    /\ \E written \in BOOLEAN, outcome \in CliOutcomes, created \in {None, Some(<<"i","d","1">>)} :
           bitwarden' = AfterCall("add_credential",
                                  add_credential(bitwarden, written, outcome, created))
    /\ UNCHANGED <<now, ticks, dsl_cache, last_put, call, sessions, tagui>>

Bitwarden_is_session_valid ==
    /\ bitwarden' = AfterCall("is_session_valid",
                              Left(bitwarden.session, Ok(is_session_valid(bitwarden)), <<>>))
    /\ UNCHANGED <<now, ticks, dsl_cache, last_put, call, sessions, tagui>>

Bitwarden_logout ==
    /\ \E outcome \in CliOutcomes :
           bitwarden' = AfterCall("logout", logout(bitwarden, outcome))
    /\ UNCHANGED <<now, ticks, dsl_cache, last_put, call, sessions, tagui>>

\* chrono::Utc::now() moves on
Bitwarden_Tick ==
    /\ bitwarden.ticks < MaxBwTicks
    /\ bitwarden' = [bitwarden EXCEPT !.clock = @ + BwTickHours, !.ticks = @ + 1]
    /\ UNCHANGED <<now, ticks, dsl_cache, last_put, call, sessions, tagui>>

NextBitwarden ==
    \/ Bitwarden_login
    \/ Bitwarden_unlock
    \/ Bitwarden_get_all_credentials
    \/ Bitwarden_get_credentials_for_url
    \/ Bitwarden_add_credential
    \/ Bitwarden_is_session_valid
    \/ Bitwarden_logout
    \/ Bitwarden_Tick

SpecBitwarden == Init /\ [][NextBitwarden]_vars

\* --------------------------------------------- calls of the SessionManager

\* the most sessions created and the most advances of the clock
MaxSessions == 2
MaxSessionTicks == 2

\* the hours the clock advances by
SessionTickHours == 24

SessionUsers == {"u1", "u2"}

\* the user_data and bitwarden_session a client asks update_session to store
SessionChanges ==
    {[user_data |-> "d2", bitwarden_session |-> None],
     [user_data |-> "d1", bitwarden_session |-> Some("bw")]}

\* the ids a caller can name: those given out and one never given out
SessionIds == 0..sessions.issued

\* the sessions a client passes to update_session: one that create_session
\* returned, with the user_data and the bitwarden_session it wants stored
UpdateArgs ==
    {[sessions.returned[id] EXCEPT !.user_data = change.user_data,
                                   !.bitwarden_session = change.bitwarden_session] :
         id \in DOMAIN sessions.returned, change \in SessionChanges}

\* SessionManager::create_session, called before any update_session;
\* inserted: the INSERT was executed; set: the connection to Redis and the
\* SETEX succeeded
Session_create_session ==
    /\ sessions.issued < MaxSessions
    /\ \A u \in Updaters : sessions.update[u].pc = "idle"
    /\ \E user_id \in SessionUsers, inserted, set \in BOOLEAN :
        LET session_id == sessions.issued + 1
            session == [session_id |-> session_id, user_id |-> user_id,
                        bitwarden_session |-> None, user_data |-> "d1",
                        expires_at |-> sessions.clock + SessionLifeHours]
            result == IF ~inserted THEN Err("Failed to create session in database")
                      ELSE IF ~set THEN Err("redis")
                      ELSE Ok(session)
        IN sessions' = [sessions EXCEPT
               !.issued = session_id,
               !.user_sessions =
                   IF inserted
                   THEN UpsertSession(@, session_id, user_id, session.user_data,
                                      session.expires_at)
                   ELSE @,
               !.redis = IF inserted /\ set THEN Setex(@, session, sessions.clock) ELSE @,
               !.returned = IF result.ok THEN @ @@ (session_id :> session) ELSE @,
               !.last = [op |-> "create_session", session_id |-> session_id,
                         result |-> result]]
    /\ UNCHANGED <<now, ticks, dsl_cache, last_put, call, bitwarden, tagui>>

\* SessionManager::get_session
Session_get_session ==
    /\ \E session_id \in SessionIds, connected, got, selected, set \in BOOLEAN :
        LET r == get_session(sessions, session_id, connected, got, selected, set)
        IN sessions' = [sessions EXCEPT
               !.redis = r.redis,
               !.last = [op |-> "get_session", session_id |-> session_id,
                         result |-> r.result]]
    /\ UNCHANGED <<now, ticks, dsl_cache, last_put, call, bitwarden, tagui>>

\* SessionManager::update_session, with no other call under way; updated: the
\* UPDATE was executed; set: the connection to Redis and the SETEX succeeded
Session_update_session ==
    /\ \E session \in UpdateArgs, updated, set \in BOOLEAN :
        sessions' = [sessions EXCEPT
            !.user_sessions = IF updated THEN UpdateRow(@, session) ELSE @,
            !.redis = IF updated /\ set THEN Setex(@, session, sessions.clock) ELSE @,
            !.last = [op |-> "update_session", session_id |-> session.session_id,
                      result |-> IF ~updated
                                 THEN Err("Failed to update session in database")
                                 ELSE IF ~set THEN Err("redis") ELSE Ok(None)]]
    /\ UNCHANGED <<now, ticks, dsl_cache, last_put, call, bitwarden, tagui>>

\* SessionManager::cleanup_expired_sessions
Session_cleanup_expired_sessions ==
    /\ \E deleted \in BOOLEAN :
        sessions' = [sessions EXCEPT
            !.user_sessions = IF deleted THEN DeleteExpired(@, sessions.clock) ELSE @,
            !.last = [op |-> "cleanup_expired_sessions", session_id |-> 0,
                      result |-> IF deleted
                                 THEN Ok(Cardinality(DOMAIN sessions.user_sessions)
                                     - Cardinality(DOMAIN DeleteExpired(sessions.user_sessions,
                                                                        sessions.clock)))
                                 ELSE Err("Failed to delete expired sessions")]]
    /\ UNCHANGED <<now, ticks, dsl_cache, last_put, call, bitwarden, tagui>>

\* NOW() and Utc::now() move on
Session_Tick ==
    /\ sessions.ticks < MaxSessionTicks
    /\ sessions' = [sessions EXCEPT
           !.clock = @ + SessionTickHours, !.ticks = @ + 1,
           !.last = [op |-> "tick", session_id |-> 0, result |-> Ok(None)]]
    /\ UNCHANGED <<now, ticks, dsl_cache, last_put, call, bitwarden, tagui>>

NextSession ==
    \/ Session_create_session
    \/ Session_get_session
    \/ Session_update_session
    \/ Session_cleanup_expired_sessions
    \/ Session_Tick

SpecSession == Init /\ [][NextSession]_vars

\* update_session is called: the task of caller u starts
Update_call(u) ==
    /\ sessions.update[u].pc = "idle"
    /\ \E session \in UpdateArgs :
        sessions' = [sessions EXCEPT
            !.update[u] = [pc |-> "update", session |-> Some(session), result |-> None]]
    /\ UNCHANGED <<now, ticks, dsl_cache, last_put, call, bitwarden, tagui>>

\* update_session up to the end of its first await: the UPDATE
Update_execute(u) ==
    /\ sessions.update[u].pc = "update"
    /\ \E updated \in BOOLEAN :
        sessions' = [sessions EXCEPT
            !.user_sessions =
                IF updated THEN UpdateRow(@, Unwrap(sessions.update[u].session)) ELSE @,
            !.update[u] =
                IF updated THEN [@ EXCEPT !.pc = "setex"]
                ELSE [@ EXCEPT !.pc = "done",
                               !.result = Some(Err("Failed to update session in database"))]]
    /\ UNCHANGED <<now, ticks, dsl_cache, last_put, call, bitwarden, tagui>>

\* update_session from there to its return: the connection and the SETEX
Update_setex(u) ==
    /\ sessions.update[u].pc = "setex"
    /\ \E set \in BOOLEAN :
        sessions' = [sessions EXCEPT
            !.redis = IF set
                      THEN Setex(@, Unwrap(sessions.update[u].session), sessions.clock)
                      ELSE @,
            !.update[u] = [@ EXCEPT !.pc = "done",
                                    !.result = Some(IF set THEN Ok(None) ELSE Err("redis"))],
            !.last = [op |-> "update_session",
                      session_id |-> Unwrap(sessions.update[u].session).session_id,
                      result |-> IF set THEN Ok(None) ELSE Err("redis")]]
    /\ UNCHANGED <<now, ticks, dsl_cache, last_put, call, bitwarden, tagui>>

NextSessionConcurrent ==
    \/ Session_create_session
    \/ \E u \in Updaters : Update_call(u)
    \/ \E u \in Updaters : Update_execute(u)
    \/ \E u \in Updaters : Update_setex(u)

SpecSessionConcurrent == Init /\ [][NextSessionConcurrent]_vars

\* ------------------------------------------------ calls of execute_script

\* scripts handed to execute_script: three the validator accepts and one it
\* rejects
ExecScripts ==
    {<<"w","a","i","t"," ","1">>, <<"c","l","i","c","k"," ","\"","#","g","o","\"">>, <<"w","a","i","t"," ","2","\n","c","l","i","c","k"," ","\"","#","o","k","\"">>, <<"c","l","i","c","k"," ","\"","A","c","c","e","p","t","\""," ","i","f"," ","p","r","e","s",
     "e","n","t">>}

\* execute_script up to the write: validate_dsl_script, and the return of
\* false for a script it rejects
Execute_validate(e) ==
    /\ tagui.exec[e].pc = "idle"
    /\ \E dsl_script \in ExecScripts :
        tagui' = [tagui EXCEPT !.exec[e] =
            IF tagui_validate_dsl_script(dsl_script).ok
            THEN [@ EXCEPT !.pc = "write", !.dsl_script = dsl_script]
            ELSE [@ EXCEPT !.pc = "done", !.dsl_script = dsl_script,
                           !.result = Some(FALSE)]]
    /\ UNCHANGED <<now, ticks, dsl_cache, last_put, call, bitwarden, sessions>>

\* fs::write("temp_script.codialog", dsl_script), and the return of false if
\* it fails
Execute_write(e) ==
    /\ tagui.exec[e].pc = "write"
    /\ \E written \in BOOLEAN :
        tagui' = IF written
                 THEN [tagui EXCEPT !.file = Some(tagui.exec[e].dsl_script),
                                    !.exec[e].pc = "launch"]
                 ELSE [tagui EXCEPT !.exec[e].pc = "done",
                                    !.exec[e].result = Some(FALSE)]
    /\ UNCHANGED <<now, ticks, dsl_cache, last_put, call, bitwarden, sessions>>

\* Command::new("tagui").arg("temp_script.codialog").arg("chrome").output():
\* the process is started on the file as it is now, or is not started
Execute_launch(e) ==
    /\ tagui.exec[e].pc = "launch"
    /\ \E started \in BOOLEAN :
        tagui' = [tagui EXCEPT
            !.exec[e].pc = "running",
            !.exec[e].launched = IF started THEN Some(tagui.file) ELSE None]
    /\ UNCHANGED <<now, ticks, dsl_cache, last_put, call, bitwarden, sessions>>

\* output() returns; then fs::remove_file(..).ok() and the match on the output
Execute_finish(e) ==
    /\ tagui.exec[e].pc = "running"
    /\ \E success \in BOOLEAN :
        tagui' = [tagui EXCEPT
            !.file = None,
            !.exec[e].pc = "done",
            !.exec[e].result = Some(IsSome(tagui.exec[e].launched) /\ success)]
    /\ UNCHANGED <<now, ticks, dsl_cache, last_put, call, bitwarden, sessions>>

NextExecute ==
    \/ \E e \in Executors : Execute_validate(e)
    \/ \E e \in Executors : Execute_write(e)
    \/ \E e \in Executors : Execute_launch(e)
    \/ \E e \in Executors : Execute_finish(e)

SpecExecute == Init /\ [][NextExecute]_vars

\* ---------------------------------------------- what the claims speak of

Done(c) == call[c].pc = "done"

\* the database statements of request c so far, of one kind
Attempts(c, op) == SelectSeq(call[c].log, LAMBDA e : e.op = op)

\* the outcome and the time of the last statement of request c of one kind
LastOutcome(c, op) ==
    LET a == Attempts(c, op)
    IN IF a = <<>> THEN "nothing" ELSE a[Len(a)].outcome

LastAt(c, op) ==
    LET a == Attempts(c, op)
    IN IF a = <<>> THEN 0 ELSE a[Len(a)].at

\* the requested sleeps of request c inside the retry loop of one kind
Sleeps(c, op) == SelectSeq(call[c].sleeps, LAMBDA e : e.op = op)

\* get returned a row, no row, or failed for good
Hit(c) == LastOutcome(c, "get") = "row"
Miss(c) == LastOutcome(c, "get") = "none"
GetGaveUp(c) ==
    /\ LastOutcome(c, "get") = "err"
    /\ call[c].pc \notin {"get", "get_sleep"}
PutGaveUp(c) ==
    /\ LastOutcome(c, "put") = "err"
    /\ call[c].pc \notin {"put", "put_sleep"}

\* a text made of whitespace only (the empty text is one)
OnlyWhitespace(s) == \A i \in 1..Len(s) : s[i] \in {" ", "\n", "\t", "\r"}

\* the scripts a request for html can get from the synthesis chain
Synthesizable(html) ==
    {GeneratedScript(html, order) :
        order \in IterationOrders(DOMAIN analyze_elements(html))}

\* the text of the basic navigation fallback
BasicNavigationText ==
    <<"/","/"," ","B","a","s","i","c"," ","n","a","v","i","g","a","t","i","o","n"," ","s","c",
     "r","i","p","t","\n","w","a","i","t"," ","3","\n","c","l","i","c","k"," ","\"","A","c",
     "c","e","p","t","\""," ","i","f"," ","p","r","e","s","e","n","t","\n","c","l","i","c",
     "k"," ","\"","L","o","g","i","n","\""," ","i","f"," ","p","r","e","s","e","n","t","\n",
     "w","a","i","t"," ","2">>

\* C1: whatever the html, the user data and the behaviour of the cache, a
\* request that is answered is answered with a script, and that script is
\* not empty.
C1_ScriptNeverEmpty ==
    \A c \in Calls :
        Done(c) => IsSome(call[c].result) /\ Len(Unwrap(call[c].result)) > 0

\* C1 witness: user data that is no object, every read and every write failed
C1_Witness ==
    \E c \in Calls :
        /\ Done(c)
        /\ call[c].user_data.kind # "object"
        /\ Len(Attempts(c, "get")) = 3 /\ GetGaveUp(c)
        /\ Len(Attempts(c, "put")) = 3 /\ PutGaveUp(c)

\* C2: for blank html (empty or whitespace only) the answer is the basic
\* navigation text, no statement was sent to the database and the cache is
\* as it was when the request arrived.
C2_BlankHtmlBypassesCache ==
    \A c \in Calls :
        (Done(c) /\ OnlyWhitespace(call[c].html)) =>
            /\ call[c].result = Some(BasicNavigationText)
            /\ call[c].log = <<>>
            /\ ~call[c].generated
            /\ dsl_cache = call[c].cache_before

\* C2 witness: whitespace html, a cache that is configured and holds a row
C2_Witness ==
    \E c \in Calls :
        /\ Done(c)
        /\ call[c].html # <<>> /\ OnlyWhitespace(call[c].html)
        /\ call[c].db_pool
        /\ call[c].user_data.kind = "object"
        /\ dsl_cache # <<>>

\* C3: when get finds a row that has not expired, the answer is that row's
\* script, the synthesis chain did not run, there was no put, and the cache
\* (the row's script and expires_at included) is unchanged.
C3_HitReturnsRow ==
    \A c \in Calls :
        (Done(c) /\ Hit(c)) =>
            /\ call[c].cache_key \in DOMAIN call[c].cache_before
            /\ call[c].result =
                   Some(call[c].cache_before[call[c].cache_key].script_content)
            /\ ~call[c].generated
            /\ Attempts(c, "put") = <<>>
            /\ dsl_cache = call[c].cache_before

\* C3 witness: a hit whose script the chain could not have made for this html
C3_Witness ==
    \E c \in Calls :
        /\ Done(c) /\ Hit(c)
        /\ Unwrap(call[c].result) \notin Synthesizable(call[c].html)

\* C4: every row of the cache holds a script that is not blank and is longer
\* than 5 characters; a request that sends a put has generated such a script
\* (so one of at most 5 characters is not persisted), and with or without a
\* put the request is answered with the script it generated.
C4_CacheAdmissionGate ==
    /\ \A k \in DOMAIN dsl_cache :
           /\ ~OnlyWhitespace(dsl_cache[k].script_content)
           /\ Len(dsl_cache[k].script_content) > 5
    /\ \A c \in Calls :
           /\ (call[c].pc \in {"put", "put_sleep"} \/ Attempts(c, "put") # <<>>) =>
                  /\ ~OnlyWhitespace(call[c].script)
                  /\ Len(call[c].script) > 5
           /\ (Done(c) /\ call[c].generated) =>
                  call[c].result = Some(call[c].script)

\* C4 witness: rows under two keys, one written for a page of 3 characters
C4_Witness ==
    /\ Cardinality(DOMAIN dsl_cache) = 2
    /\ \E k \in DOMAIN dsl_cache : Len(dsl_cache[k].html_content) <= 5

\* C5: until the TTL of the last successful put of a key has passed, get
\* finds that key and returns the script of that put; a get that is answered
\* before the expiry of the row of its key is a hit; and a request that hits
\* and has the html and user data of the request that made that put is
\* answered with the script that request was answered with.
C5_RoundTrip ==
    /\ \A k \in DOMAIN last_put :
           now < last_put[k].at + 3600000 =>
               SelectScript(dsl_cache, k, now) = Some(last_put[k].script)
    /\ \A c \in Calls :
           /\ (/\ LastOutcome(c, "get") \in {"row", "none"}
               /\ call[c].cache_key \in DOMAIN call[c].cache_before
               /\ LastAt(c, "get")
                      < call[c].cache_before[call[c].cache_key].expires_at) =>
                  Hit(c)
           /\ (/\ Done(c) /\ Hit(c)
               /\ call[c].cache_key \in DOMAIN last_put
               /\ last_put[call[c].cache_key].html = call[c].html
               /\ last_put[call[c].cache_key].user_data = call[c].user_data) =>
                  call[c].result = Some(last_put[call[c].cache_key].script)

\* C5 witness: the second request for a page whose synthesis has two
\* outcomes, answered from the cache some time after the first one's put
C5_Witness ==
    \E c \in Calls :
        /\ Done(c) /\ Hit(c)
        /\ call[c].html = HtmlButtonSelect
        /\ last_put[call[c].cache_key].html = call[c].html
        /\ last_put[call[c].cache_key].user_data = call[c].user_data
        /\ LastAt(c, "get") > last_put[call[c].cache_key].at

\* C6: a row whose expires_at is at or before the current time is not
\* returned by get though it is stored (a row that is returned has not
\* expired); the request is then served as a miss: it runs synthesis, and
\* its put leaves the row with the expiry of that write, one hour ahead.
C6_Expiry ==
    /\ \A k \in DOMAIN dsl_cache :
           dsl_cache[k].expires_at <= now => SelectScript(dsl_cache, k, now) = None
    /\ \A c \in Calls :
           /\ (Done(c) /\ Hit(c)) =>
                  call[c].cache_before[call[c].cache_key].expires_at
                      > LastAt(c, "get")
           /\ (Miss(c) /\ call[c].cache_key \in DOMAIN call[c].cache_before) =>
                  call[c].cache_before[call[c].cache_key].expires_at
                      <= LastAt(c, "get")
           /\ (Done(c) /\ Miss(c)) => call[c].generated
           /\ (Done(c) /\ Miss(c) /\ LastOutcome(c, "put") = "ok") =>
                  /\ dsl_cache[call[c].cache_key].expires_at
                         = LastAt(c, "put") + 3600000
                  /\ dsl_cache[call[c].cache_key].script_content = call[c].script

\* C6 witness: a request that found the row of its key expired at that very
\* moment, and wrote it anew
C6_Witness ==
    \E c \in Calls :
        /\ Done(c) /\ Miss(c) /\ LastOutcome(c, "put") = "ok"
        /\ call[c].cache_key \in DOMAIN call[c].cache_before
        /\ call[c].cache_before[call[c].cache_key].expires_at = LastAt(c, "get")
        /\ dsl_cache[call[c].cache_key].expires_at
               > call[c].cache_before[call[c].cache_key].expires_at

\* C7: when every attempt of get fails the request is not answered early:
\* it runs the synthesis chain, is answered with a script the chain gives
\* for its html on a miss, and sends the put.
C7_ReadFailureIsMiss ==
    \A c \in Calls :
        /\ GetGaveUp(c) => call[c].pc \in {"generate", "put", "put_sleep", "done"}
        /\ (GetGaveUp(c) /\ call[c].pc # "generate") =>
               /\ call[c].generated
               /\ call[c].script \in Synthesizable(call[c].html)
               /\ call[c].pc = "put" \/ Attempts(c, "put") # <<>>
        /\ (GetGaveUp(c) /\ Done(c)) => call[c].result = Some(call[c].script)

\* C7 witness: every read failed while the cache held a row the request
\* would have hit
C7_Witness ==
    \E c \in Calls :
        /\ Done(c) /\ GetGaveUp(c)
        /\ LastOutcome(c, "put") = "ok"
        /\ SelectScript(call[c].cache_before, call[c].cache_key,
                        LastAt(c, "get")) # None

\* C8: when every attempt of put fails the request is answered with the
\* script it generated, one the chain gives for its html, and the cache is
\* as it was when the request arrived.
C8_WriteFailureSwallowed ==
    \A c \in Calls :
        (Done(c) /\ PutGaveUp(c)) =>
            /\ call[c].result = Some(call[c].script)
            /\ call[c].script \in Synthesizable(call[c].html)
            /\ dsl_cache = call[c].cache_before

\* C8 witness: every write failed, with another key's row in the cache
C8_Witness ==
    \E c \in Calls :
        /\ Done(c) /\ PutGaveUp(c)
        /\ Len(Attempts(c, "put")) = 3
        /\ dsl_cache # <<>>
        /\ call[c].cache_key \notin DOMAIN dsl_cache

\* C9: get and put each send at most 3 statements; every statement but the
\* last one failed; the k-th failure is followed by a sleep of 100 ms times
\* k exactly when another statement follows (k = 1, 2), so that the sleeps
\* of one loop sum to at most 300 ms; the third failure ends the loop with
\* no sleep.
C9_RetryPolicyOf(c, op, trying, sleeping) ==
    LET a == Attempts(c, op)
        z == Sleeps(c, op)
        inLoop == call[c].pc \in {trying, sleeping}
    IN /\ Len(a) <= 3
       /\ \A i \in 1..(Len(a) - 1) : a[i].outcome = "err"
       /\ Len(z) <= 2
       /\ \A k \in 1..Len(z) : z[k].ms = 100 * k
       /\ \A k \in 1..Len(z) : k < Len(a) => a[k + 1].at >= a[k].at + 100 * k
       /\ Len(z) = (IF inLoop THEN Len(a)
                    ELSE IF a = <<>> THEN 0 ELSE Len(a) - 1)
       /\ inLoop => \A i \in 1..Len(a) : a[i].outcome = "err"
       /\ call[c].pc = trying => Len(a) < 3
       /\ call[c].pc = sleeping => Len(a) \in 1..2

C9_RetryPolicy ==
    \A c \in Calls :
        /\ C9_RetryPolicyOf(c, "get", "get", "get_sleep")
        /\ C9_RetryPolicyOf(c, "put", "put", "put_sleep")
        /\ call[c].pc \in {"get", "get_sleep"} => Attempts(c, "put") = <<>>

\* C9 witness: three failed reads and three failed writes in one request
C9_Witness ==
    \E c \in Calls :
        /\ Done(c)
        /\ Len(Attempts(c, "get")) = 3 /\ GetGaveUp(c)
        /\ Len(Attempts(c, "put")) = 3 /\ PutGaveUp(c)
        /\ Len(call[c].sleeps) = 4

\* C10: the expires_at of a row is the time of the last successful put of
\* its key plus one hour, whatever gets came after it, and from that time on
\* get does not return the row.
C10_FixedTtl ==
    /\ DOMAIN dsl_cache = DOMAIN last_put
    /\ \A k \in DOMAIN dsl_cache :
           /\ dsl_cache[k].expires_at = last_put[k].at + 3600000
           /\ now >= last_put[k].at + 3600000 =>
                  SelectScript(dsl_cache, k, now) = None

\* C10 witness: a request that hit the row some time after the put, and then
\* the hour after the put has passed
C10_Witness ==
    \E c \in Calls :
        /\ Done(c) /\ Hit(c)
        /\ LastAt(c, "get") > last_put[call[c].cache_key].at
        /\ now >= last_put[call[c].cache_key].at + 3600000
\* the row that the successful put of request c wrote
RowPutBy(c) ==
    [script_content |-> call[c].script, html_content |-> call[c].html,
     expires_at |-> LastAt(c, "put") + 3600000]

\* the requests of a set whose put the database executed
PutBy(cs) == {c \in cs : LastOutcome(c, "put") = "ok"}

\* C11: of two concurrent requests with equal keys that both miss, each runs
\* synthesis, sends its put and is answered with a non-empty script; once
\* both are answered, the row of the key is the row one of their executed
\* puts wrote, whole (script, html and expiry of the same put), and it is
\* the row of the put that came last.
C11_ConcurrentMisses ==
    \A c, d \in Calls :
        (/\ c # d
         /\ call[c].cache_key = call[d].cache_key
         /\ Miss(c) /\ Miss(d)) =>
            /\ Done(c) =>
                   /\ call[c].generated
                   /\ Attempts(c, "put") # <<>>
                   /\ IsSome(call[c].result) /\ Len(Unwrap(call[c].result)) > 0
            /\ (Done(c) /\ Done(d) /\ PutBy({c, d}) # {}) =>
                   /\ call[c].cache_key \in DOMAIN dsl_cache
                   /\ \E w \in PutBy({c, d}) :
                          /\ dsl_cache[call[c].cache_key] = RowPutBy(w)
                          /\ \A v \in PutBy({c, d}) : LastAt(v, "put") <= LastAt(w, "put")

\* C11 witness: both missed and both wrote, pages and scripts differ, and the
\* puts came at different times
C11_Witness ==
    \E c, d \in Calls :
        /\ c # d /\ Done(c) /\ Done(d)
        /\ call[c].cache_key = call[d].cache_key
        /\ Miss(c) /\ Miss(d)
        /\ PutBy({c, d}) = {c, d}
        /\ call[c].html # call[d].html
        /\ call[c].script # call[d].script
        /\ LastAt(c, "put") < LastAt(d, "put")
        /\ dsl_cache[call[c].cache_key] = RowPutBy(d)
\* the text of the basic fallback
BasicFallbackText ==
    <<"/","/"," ","B","a","s","i","c"," ","f","a","l","l","b","a","c","k","\n","w","a","i","t",
     " ","3","\n","c","l","i","c","k"," ","\"","C","o","n","t","i","n","u","e","\""," ","i",
     "f"," ","p","r","e","s","e","n","t","\n","w","a","i","t"," ","2","\n">>

\* C12: for html that is not blank and has no recognizable form field, and
\* an empty profile, generate_dsl_script returns the basic navigation text.
C12_NoFieldsGivesBasicNavigation ==
    (/\ call.pc = "generate_dsl_script"
     /\ ~OnlyWhitespace(call.html)
     /\ DOMAIN analyze_elements(call.html) = {}
     /\ call.user_data = JsonObject(<<>>)) =>
        call.out = Some(BasicNavigationText)

\* C13: the result of the chain is the output of the first of the tiers
\* enhanced, simple, basic navigation whose output is not blank, and the
\* tiers evaluated are the tiers up to that one.
C13_FirstNonBlankTierWins ==
    call.pc = "generate_dsl_script" =>
        LET tiers == <<generate_enhanced_form_script(call.html, call.order),
                       generate_simple_form_script,
                       Ok(BasicNavigationText)>>
            good(i) == tiers[i].ok /\ ~OnlyWhitespace(tiers[i].val)
            first == CHOOSE i \in 1..3 : good(i) /\ \A j \in 1..(i - 1) : ~good(j)
        IN /\ call.chain = Some(Ok(tiers[first].val))
           /\ call.tried = SubSeq(<<"enhanced", "simple", "basic">>, 1, first)

\* C13 witness: a page with two element kinds; the enhanced tier wins, and
\* its script is neither that of the simple tier nor the basic navigation
C13_Witness ==
    /\ call.pc = "generate_dsl_script"
    /\ Len(call.order) = 2
    /\ call.tried = <<"enhanced">>
    /\ Unwrap(call.chain).val # generate_simple_form_script.val
    /\ Unwrap(call.chain).val # BasicNavigationText
    /\ Contains(Unwrap(call.chain).val, <<"/","/"," ","S","e","l","e","c","t"," ","f","i","e","l","d"," ","d","e","t","e","c","t",
     "e","d">>)

KeyDigits(key) == SubSeq(key, 5, Len(key))

C17_SynthesisDeterminism ==
    call.pc = "generate_dsl_script" => call.out2 = call.out

\* the lines of html that contain one of the eight keywords, in order
StructuralLines(html) ==
    SelectSeq(Lines(html), LAMBDA line : \E k \in StructuralKeywords : Contains(line, k))

\* C18: two inputs whose html has the same sequence of structural lines and
\* whose profiles hold the same field names get the same key, whatever the
\* other lines and whatever the values of the fields.
C18_KeyOfStructureAndNames ==
    (/\ call.pc = "create_cache_key"
     /\ StructuralLines(call.html2) = StructuralLines(call.html)
     /\ ObjectKeys(call.user_data2) = ObjectKeys(call.user_data)) =>
        call.out2 = call.out

\* C18 witness: two pages that differ in a line without keyword, and two
\* profiles that differ in the password, with one key
C18_Witness ==
    /\ call.pc = "create_cache_key"
    /\ call.html = HtmlButtonSelect /\ call.html2 = HtmlButtonSelectNoise
    /\ StructuralLines(call.html2) = StructuralLines(call.html)
    /\ ObjectKeys(call.user_data2) = ObjectKeys(call.user_data)
    /\ GetStr(call.user_data, <<"p","a","s","s","w","o","r","d">>) # None
    /\ GetStr(call.user_data2, <<"p","a","s","s","w","o","r","d">>) # None
    /\ GetStr(call.user_data2, <<"p","a","s","s","w","o","r","d">>) # GetStr(call.user_data, <<"p","a","s","s","w","o","r","d">>)
    /\ call.out2 = call.out

\* the set of the field names of a profile
FieldNameSet(v) == {ObjectKeys(v)[i] : i \in 1..Len(ObjectKeys(v))}

Inventory == analyze_elements(call.html)

HasBucket(kind) == kind \in DOMAIN Inventory

\* the bucket of a kind holds a selector
HasSelector(kind) == HasBucket(kind) /\ Inventory[kind] # <<>>

\* the field of the profile is a string that is not empty
HasValue(key) ==
    /\ GetStr(call.user_data, key) # None
    /\ Unwrap(GetStr(call.user_data, key)) # <<>>

IsType(command) == StartsWith(command, <<"t","y","p","e"," ">>)
IsClick(command) == StartsWith(command, <<"c","l","i","c","k"," ">>)

\* C20 as claimed: a password bucket with no text and no email bucket gives
\* None; a password and an email bucket give one type for the email, one
\* type for the password, and one click exactly if there is a login bucket.
C20_LoginSequenceGating ==
    call.pc = "generate_login_sequence" =>
        /\ (HasBucket(<<"p","a","s","s","w","o","r","d">>) /\ ~HasBucket(<<"t","e","x","t">>) /\ ~HasBucket(<<"e","m","a","i","l">>)) =>
               call.out = None
        /\ (HasBucket(<<"p","a","s","s","w","o","r","d">>) /\ HasBucket(<<"e","m","a","i","l">>)) =>
               /\ call.out # None
               /\ LET actions == Unwrap(call.out)
                  IN /\ Len(actions) = IF HasBucket(<<"l","o","g","i","n">>) THEN 3 ELSE 2
                     /\ IsType(actions[1])
                     /\ IsType(actions[2])
                     /\ HasBucket(<<"l","o","g","i","n">>) => IsClick(actions[3])

\* C20: a password bucket with no text and no email bucket gives None.  A
\* password and an email bucket that each hold a selector, with a profile
\* whose email and password are strings that are not empty, give the type of
\* the email into the first text selector, or else the first email selector,
\* then the type of the password into the first password selector, then one
\* click exactly if the login bucket holds a selector, and nothing else.
C20_LoginSequenceGatingOfFilledProfile ==
    call.pc = "generate_login_sequence" =>
        /\ (HasBucket(<<"p","a","s","s","w","o","r","d">>) /\ ~HasBucket(<<"t","e","x","t">>) /\ ~HasBucket(<<"e","m","a","i","l">>)) =>
               call.out = None
        /\ (/\ HasSelector(<<"p","a","s","s","w","o","r","d">>) /\ HasSelector(<<"e","m","a","i","l">>)
            /\ HasValue(<<"e","m","a","i","l">>) /\ HasValue(<<"p","a","s","s","w","o","r","d">>)) =>
               LET field == IF HasSelector(<<"t","e","x","t">>) THEN Inventory[<<"t","e","x","t">>][1]
                            ELSE Inventory[<<"e","m","a","i","l">>][1]
                   types == <<TypeCommand(field, Unwrap(GetStr(call.user_data, <<"e","m","a","i","l">>))),
                              TypeCommand(Inventory[<<"p","a","s","s","w","o","r","d">>][1],
                                          Unwrap(GetStr(call.user_data, <<"p","a","s","s","w","o","r","d">>)))>>
               IN call.out = Some(IF HasSelector(<<"l","o","g","i","n">>)
                                  THEN Append(types, ClickCommand(Inventory[<<"l","o","g","i","n">>][1]))
                                  ELSE types)

\* C20 witness: the login page with a login button and a profile whose
\* password holds a quote: two types and the click, as texts
C20_Witness ==
    /\ call.pc = "generate_login_sequence"
    /\ call.html = HtmlLogin
    /\ call.out = Some(<<<<"t","y","p","e"," ","\"","#","e","m","\""," ","\"","a","@","b","\"">>,
                         <<"t","y","p","e"," ","\"","#","p","w","\""," ","\"","y","\\","\"","\"">>,
                         <<"c","l","i","c","k"," ","\"","#","g","o","\"">>>>)

\* the mappings of the table of generate_simple_dsl that apply to the call:
\* the profile has a string that is not empty under the key, and one of the
\* candidate selectors is present in the html
SimpleApplies(mapping) ==
    /\ HasValue(mapping.data_key)
    /\ \E i \in 1..Len(mapping.selectors) : selector_present(call.html, mapping.selectors[i])

\* the command the claim expects for a mapping that applies
SimpleExpected(mapping) ==
    LET first == CHOOSE i \in 1..Len(mapping.selectors) :
                     /\ selector_present(call.html, mapping.selectors[i])
                     /\ \A j \in 1..(i - 1) : ~selector_present(call.html, mapping.selectors[j])
        verb == IF mapping.data_key = <<"c","v","_","p","a","t","h">> THEN <<"u","p","l","o","a","d">> ELSE <<"t","y","p","e">>
    IN verb \o <<" ","\"">> \o mapping.selectors[first] \o <<"\""," ","\"">>
            \o escape_for_dsl(Unwrap(GetStr(call.user_data, mapping.data_key))) \o <<"\"">>

\* C21: the commands of generate_simple_dsl that are not clicks are, in the
\* order of the table, one command per key that applies (upload for cv_path,
\* type otherwise, first candidate present, escaped value); what follows them
\* is the click on the first submit selector present if there is one and
\* nothing otherwise; what precedes them is at most the click on the login
\* button.
C21_SimpleShape ==
    call.pc = "generate_simple_dsl" =>
        LET commands == Lines(Unwrap(call.out))
            applying == SelectSeq(simple_field_mappings, SimpleApplies)
            fills == [i \in 1..Len(applying) |-> SimpleExpected(applying[i])]
            submits == {i \in 1..Len(submit_selectors) :
                           selector_present(call.html, submit_selectors[i])}
            click == IF submits = {} THEN <<>>
                     ELSE <<<<"c","l","i","c","k"," ","\"">>
                            \o submit_selectors[CHOOSE i \in submits : \A j \in submits : i <= j]
                            \o <<"\"">>>>
        IN /\ SelectSeq(commands, LAMBDA c : ~IsClick(c)) = fills
           /\ \E head \in {<<>>, <<<<"c","l","i","c","k"," ","\"","#","l","o","g","i","n","-","b","t","n","\"">>>>} :
                  commands = head \o fills \o click

\* C21 witness: the page and the profile of test_simple_dsl_generation give
\* the type of the username, the type of the password, then the click
C21_Witness ==
    /\ call.pc = "generate_simple_dsl"
    /\ call.html = SimpleHtmlTest
    /\ call.out = Some(<<"t","y","p","e"," ","\"","#","u","s","e","r","n","a","m","e","\""," ","\"","j","o","h",
     "n",".","d","o","e","\"","\n","t","y","p","e"," ","\"","#","p","a","s","s","w","o","r",
     "d","\""," ","\"","s","e","c","r","e","t","1","2","3","\"","\n","c","l","i","c","k",
     " ","\"","#","s","u","b","m","i","t","\"","\n">>)

\* C22: for html with an email input, a password input and a submit button,
\* and a profile with an email that is not empty, the script of
\* generate_dsl_script contains a type command, a click command and the email.
C22_ScriptFillsLoginForm ==
    (/\ call.pc = "generate_dsl_script"
     /\ Contains(call.html, <<"<","i","n","p","u","t"," ","t","y","p","e","=","\"","e","m","a","i","l","\"">>)
     /\ Contains(call.html, <<"<","i","n","p","u","t"," ","t","y","p","e","=","\"","p","a","s","s","w","o","r","d","\"">>)
     /\ Contains(call.html, <<"<","b","u","t","t","o","n"," ","t","y","p","e","=","\"","s","u","b","m","i","t","\"">>)
     /\ HasValue(<<"e","m","a","i","l">>)) =>
        /\ Contains(Unwrap(call.out), <<"t","y","p","e">>)
        /\ Contains(Unwrap(call.out), <<"c","l","i","c","k">>)
        /\ Contains(Unwrap(call.out), Unwrap(GetStr(call.user_data, <<"e","m","a","i","l">>)))

\* what the page of a call of is_complex_form was made of
ComplexHas == CHOOSE has \in ComplexChoices : ComplexPage(has) = call.html

\* the number of the indices in S that the page has
HowMany(S) == Cardinality({i \in S : ComplexHas[i]})

\* C24 as claimed: is_complex_form is true exactly if at least two of four
\* signals hold: a complexity-flagged class or attribute (class="complex,
\* data-step=, multi-step), more than five inputs, an inline JavaScript marker
\* (javascript:, onclick=), a validation attribute.
C24_TwoOfFourSignals ==
    call.pc = "is_complex_form" =>
        LET signals == <<HowMany({1, 2, 3}) > 0, ComplexHas[4],
                         HowMany({5, 6}) > 0, ComplexHas[7]>>
        IN call.out = Some(Cardinality({i \in 1..4 : signals[i]}) >= 2)

\* C24: is_complex_form is true exactly if at least two of seven indicators
\* hold, each counted on its own: class="complex, data-step=, multi-step,
\* more than five occurrences of <input, javascript:, onclick=,
\* data-validation=.
C24_TwoOfSevenIndicators ==
    call.pc = "is_complex_form" => call.out = Some(HowMany(1..7) >= 2)

\* C24 witness: a page of five inputs whose only indicators are javascript:
\* and onclick= is complex
C24_Witness ==
    /\ call.pc = "is_complex_form"
    /\ ComplexHas = [i \in 1..7 |-> i \in {5, 6}]
    /\ call.out = Some(TRUE)

\* the line, without the whitespace around it, begins with one of the verbs
BeginsWithVerb(line) == \E i \in 1..Len(DslVerbs) : StartsWith(Trim(line), DslVerbs[i])

\* C25: the lines of the result of parse_dsl_from_response are the lines of
\* the response that begin with one of the five verbs, trimmed and in their
\* order, and nothing else; the function applied to its result returns it.
C25_ParseKeepsVerbLines ==
    call.pc = "parse_dsl_from_response" =>
        LET kept == SelectSeq(Lines(call.text), BeginsWithVerb)
        IN /\ Lines(Unwrap(call.out)) = [i \in 1..Len(kept) |-> Trim(kept[i])]
           /\ call.out2 = call.out

\* C25 witness: an indented type between a comment and the end of the
\* response; the result is the type alone, trimmed
C25_Witness ==
    /\ call.pc = "parse_dsl_from_response"
    /\ call.text = <<"/","/"," ","w","a","i","t"," ","1","\n"," "," ","t","y","p","e"," ","\"","#","u","\"",
     " ","\"","v","\""," ">>
    /\ call.out = Some(<<"t","y","p","e"," ","\"","#","u","\""," ","\"","v","\"">>)
    /\ call.out2 = call.out

\* s without the whitespace at its start
SkipWhitespace(s) ==
    LET keep == {i \in 1..Len(s) : ~IsWhitespace(s[i])}
    IN IF keep = {} THEN <<>> ELSE From(s, CHOOSE i \in keep : \A j \in keep : i <= j)

\* the characters of s before its first whitespace
FirstWord(s) ==
    LET gaps == {i \in 1..Len(s) : IsWhitespace(s[i])}
    IN IF gaps = {} THEN s ELSE SubSeq(s, 1, (CHOOSE i \in gaps : \A j \in gaps : i <= j) - 1)

\* the number of backslashes that stand immediately before position i of s
BackslashesBefore(s, i) ==
    CHOOSE k \in 0..(i - 1) :
        /\ \A m \in (i - k)..(i - 1) : s[m] = "\\"
        /\ i - k = 1 \/ s[i - k - 1] # "\\"

\* the arguments of a command as the DSL writes them: a quoted argument runs
\* from its opening quote to the next quote that is not escaped, whatever
\* lies between; a bare argument runs to the next whitespace
RECURSIVE DslArguments(_)
DslArguments(s) ==
    LET t == SkipWhitespace(s)
        closing == {i \in 2..Len(t) : t[i] = "\"" /\ BackslashesBefore(t, i) % 2 = 0}
        close == CHOOSE i \in closing : \A j \in closing : i <= j
        word == FirstWord(t)
    IN IF t = <<>> THEN <<>>
       ELSE IF t[1] = "\"" /\ closing = {}
       THEN <<[quoted |-> TRUE, closed |-> FALSE, text |-> Tail(t)]>>
       ELSE IF t[1] = "\""
       THEN <<[quoted |-> TRUE, closed |-> TRUE, text |-> SubSeq(t, 2, close - 1)]>>
            \o DslArguments(From(t, close + 1))
       ELSE <<[quoted |-> FALSE, closed |-> TRUE, text |-> word]>>
            \o DslArguments(From(t, Len(word) + 1))

IsQuotedArgument(a) == a.quoted /\ a.closed

\* a number of seconds: digits, possibly a point and digits
IsSeconds(a) ==
    /\ ~a.quoted
    /\ \E p \in 1..(Len(a.text) + 1) :
           /\ p > 1
           /\ IsDigits(SubSeq(a.text, 1, p - 1))
           /\ p <= Len(a.text) =>
                  (a.text[p] = "." /\ p < Len(a.text) /\ IsDigits(From(a.text, p + 1)))

\* the line has one of the five verbs and the arguments of that verb
HasVerbAndArity(raw) ==
    LET line == Trim(raw)
        verb == FirstWord(line)
        arguments == DslArguments(From(line, Len(verb) + 1))
    IN \/ /\ verb \in {<<"c","l","i","c","k">>, <<"h","o","v","e","r">>}
          /\ Len(arguments) = 1 /\ IsQuotedArgument(arguments[1])
       \/ /\ verb \in {<<"t","y","p","e">>, <<"u","p","l","o","a","d">>}
          /\ Len(arguments) = 2
          /\ IsQuotedArgument(arguments[1]) /\ IsQuotedArgument(arguments[2])
       \/ /\ verb = <<"w","a","i","t">>
          /\ Len(arguments) = 1 /\ IsSeconds(arguments[1])

\* C26: tagui::validate_dsl_script accepts a script exactly if every line
\* that is not blank and does not start with // has one of the five verbs
\* and its arity: one quoted selector for click and hover (a selector with
\* spaces inside its quotes is one argument), a quoted selector and a quoted
\* value for type and upload, one number for wait.
C26_AcceptsVerbAndArity ==
    call.pc = "tagui_validate_dsl_script" =>
        LET lines == Lines(call.text)
        IN Unwrap(call.out).ok <=>
               \A i \in 1..Len(lines) :
                   (IsBlank(lines[i]) \/ StartsWith(Trim(lines[i]), <<"/","/">>))
                   \/ HasVerbAndArity(lines[i])

\* the reading of an escaped text: a backslash stands for the character
\* that follows it
RECURSIVE Unescape(_)
Unescape(s) ==
    IF s = <<>> THEN <<>>
    ELSE IF s[1] = "\\" /\ Len(s) >= 2 THEN <<s[2]>> \o Unescape(From(s, 3))
    ELSE <<s[1]>> \o Unescape(Tail(s))

HasVisible(s) == \E i \in 1..Len(s) : ~IsWhitespace(s[i])

\* C28 as claimed: validate_generated_script is true exactly if the trimmed
\* script is not empty and is longer than 5 characters.
C28_TrimmedLongerThanFive ==
    call.pc = "validate_generated_script" =>
        call.out = Some(Trim(call.text) # <<>> /\ Len(Trim(call.text)) > 5)

\* C28: validate_generated_script is true exactly if the script has a
\* character that is not whitespace and the script as given, not trimmed,
\* is longer than 5.
C28_VisibleAndLongerThanFive ==
    call.pc = "validate_generated_script" =>
        call.out = Some(HasVisible(call.text) /\ Len(call.text) > 5)

\* C28 witness: one letter and five spaces are accepted
C28_Witness ==
    /\ call.pc = "validate_generated_script"
    /\ call.text = <<"a", " ", " ", " ", " ", " ">>
    /\ call.out = Some(TRUE)

\* the quotes of a line that no backslash escapes are odd in number
HasOpenQuote(line) ==
    Cardinality({i \in 1..Len(line) :
                    line[i] = "\"" /\ BackslashesBefore(line, i) % 2 = 0}) % 2 = 1

\* C29: validate_generated_script is false for a script with a line whose
\* quotes are not balanced, and false for the empty script.
C29_RejectsOpenQuote ==
    (/\ call.pc = "validate_generated_script"
     /\ \/ call.text = <<>>
        \/ \E i \in 1..Len(Lines(call.text)) : HasOpenQuote(Lines(call.text)[i])) =>
        call.out = Some(FALSE)

\* the selector generate_login_sequence types the identity into: the first
\* text selector, or else the first email selector
UsernameField ==
    IF HasSelector(<<"t","e","x","t">>) THEN Inventory[<<"t","e","x","t">>][1] ELSE Inventory[<<"e","m","a","i","l">>][1]

\* the sequence has the type of the value into the username field
TypesIdentity(value) ==
    \E i \in 1..Len(Unwrap(call.out)) :
        Unwrap(call.out)[i] = TypeCommand(UsernameField, value)

\* C31: a sequence of generate_login_sequence types the email if the profile
\* has an email that is not empty; otherwise, if the profile has a username
\* that is not empty, it types the username, also when the email is there
\* and empty; it never types both.
C31_EmailElseUsername ==
    (call.pc = "generate_login_sequence" /\ call.out # None) =>
        LET email == GetStr(call.user_data, <<"e","m","a","i","l">>)
            username == GetStr(call.user_data, <<"u","s","e","r","n","a","m","e">>)
        IN /\ HasValue(<<"e","m","a","i","l">>) => TypesIdentity(Unwrap(email))
           /\ (~HasValue(<<"e","m","a","i","l">>) /\ HasValue(<<"u","s","e","r","n","a","m","e">>)) =>
                  TypesIdentity(Unwrap(username))
           /\ (HasValue(<<"e","m","a","i","l">>) /\ HasValue(<<"u","s","e","r","n","a","m","e">>) /\ username # email) =>
                  ~TypesIdentity(Unwrap(username))


\* C33: a script that generate_dsl_script_with_cache returns from a path of
\* its own (the basic navigation script for blank html, or the outcome of
\* the generation after a cache miss or without a cache) is accepted by
\* tagui::validate_dsl_script, the check execute_script starts with.
C33_ReturnedScriptsPassTheEngineCheck ==
    \A c \in Calls :
        (Done(c) /\ (call[c].generated \/ OnlyWhitespace(call[c].html))) =>
            tagui_validate_dsl_script(Unwrap(call[c].result)).ok


\* C34: for the inventory FormAnalyzer::new builds of a page,
\* generate_login_sequence returns a sequence exactly if is_login_form() is
\* true, an input line with no id, name or class included.
C34_DetectionAgreesWithGeneration ==
    call.pc = "is_login_form" => (IsSome(call.out2) <=> Unwrap(call.out))


\* the selectors of the inventory, of every kind
AllSelectors ==
    UNION {{Inventory[kind][i] : i \in 1..Len(Inventory[kind])} : kind \in DOMAIN Inventory}

\* the command enters text into the element the selector names
Targets(command, selector) ==
    StartsWith(command, <<"t","y","p","e"," ","\"">> \o selector \o <<"\""," ">>)

\* the command enters the profile's value of the key
TypesValueOf(command, key) ==
    /\ HasValue(key)
    /\ \E selector \in AllSelectors :
           command = TypeCommand(selector, Unwrap(GetStr(call.user_data, key)))

ProfileFields == {<<"f","u","l","l","n","a","m","e">>, <<"e","m","a","i","l">>, <<"p","h","o","n","e">>, <<"u","s","e","r","n","a","m","e">>}

\* C35: the type commands of generate_field_filling_sequence have pairwise
\* distinct selectors, and each of fullname, email, phone and username
\* contributes at most one command.
C35_OneCommandPerFieldAndSelector ==
    call.pc = "generate_field_filling_sequence" =>
        LET actions == Unwrap(call.out)
        IN /\ \A i, j \in 1..Len(actions) : \A selector \in AllSelectors :
                  (Targets(actions[i], selector) /\ Targets(actions[j], selector)) => i = j
           /\ \A key \in ProfileFields :
                  Cardinality({i \in 1..Len(actions) : TypesValueOf(actions[i], key)}) <= 1

\* the input elements of the page that are checkboxes
CheckboxElements ==
    {i \in 1..Len(Lines(call.html)) :
        /\ Contains(Lines(call.html)[i], <<"<","i","n","p","u","t">>)
        /\ extract_attribute(Lines(call.html)[i], <<"t","y","p","e">>) = Some(<<"c","h","e","c","k","b","o","x">>)}

\* C36: generate_checkbox_sequence emits at most one click for each checkbox
\* input element of the page.
C36_OneClickPerCheckbox ==
    call.pc = "generate_checkbox_sequence" =>
        Len(Unwrap(call.out)) <= Cardinality(CheckboxElements)


\* the methods that need a session
SessionMethods ==
    {"unlock", "get_all_credentials", "get_credentials_for_url", "add_credential"}

C37_LookupsReflectTheDatabase ==
    LET last == sessions.last
    IN (last.op = "get_session" /\ last.result.ok /\ IsSome(last.result.val)) =>
           /\ last.session_id \in DOMAIN sessions.user_sessions
           /\ sessions.user_sessions[last.session_id].expires_at > sessions.clock

\* C38: when two concurrent update_session calls on the same session have
\* both returned Ok, the Redis entry of the session and its row hold the same
\* user_data and bitwarden_session.
C38_CacheAndStoreCoherent ==
    LET one == sessions.update[1]
        two == sessions.update[2]
        id == Unwrap(one.session).session_id
        entry == RedisGet(sessions.redis, id, sessions.clock)
    IN (/\ one.pc = "done" /\ two.pc = "done"
        /\ Unwrap(one.result).ok /\ Unwrap(two.result).ok
        /\ Unwrap(two.session).session_id = id
        /\ id \in DOMAIN sessions.user_sessions) =>
           /\ IsSome(entry)
           /\ Unwrap(entry).user_data = sessions.user_sessions[id].user_data
           /\ Unwrap(entry).bitwarden_session = sessions.user_sessions[id].bitwarden_session


\* C39: of two concurrent execute_script calls with different valid scripts,
\* each starts tagui on a file that holds the script of its own call; so no
\* call has removed the file, or put its own script into it, before the
\* other call's tagui was started.
C39_EachRunsItsOwnScript ==
    \A e, other \in Executors :
        (/\ IsSome(tagui.exec[e].launched)
         /\ tagui.exec[other].pc # "idle"
         /\ tagui_validate_dsl_script(tagui.exec[other].dsl_script).ok
         /\ tagui.exec[other].dsl_script # tagui.exec[e].dsl_script) =>
            Unwrap(tagui.exec[e].launched) = Some(tagui.exec[e].dsl_script)
====
